---- MODULE Spec2Model ----
(***************************************************************************)
(* Model of the aggregation engine of research_finder: the Aggregator      *)
(* (run_all_searches / _process_searchers / get_last_run_summary), the     *)
(* BaseSearcher helpers (cache access, rate limiting), the search methods  *)
(* of the concrete searchers and the CacheManager.                         *)
(*                                                                         *)
(* Strings are sequences of one-character strings so that lower() and      *)
(* strip() are computed, not assumed.  Time is an integer clock; one unit  *)
(* is half a second, so the rate limits 1.0 s and 0.5 s are 2 and 1.       *)
(***************************************************************************)
EXTENDS Integers, Sequences, FiniteSets, TLC

VARIABLES
    searchers,                  \* Aggregator.searchers: provider names, in add order
    cache,                      \* the cache directory: key |-> [results, mtime, damage]
    clock,                      \* time.time()
    last_request_time,          \* BaseSearcher._last_request_time, per instance
    last_successful_searchers,  \* Aggregator.last_successful_searchers
    last_failed_searchers,      \* Aggregator.last_failed_searchers
    gen,                        \* the generator object returned by _process_searchers
    out,                        \* the records the caller has received from the current run
    mode,                       \* "none" | "list" | "stream": how the current run was invoked
    run,                        \* history: what happened in the current run
    prev,                       \* history: what happened in the run before it
    runs,                       \* number of run_all_searches calls so far
    op                          \* history: the latest call made on a component directly

vars == <<searchers, cache, clock, last_request_time, last_successful_searchers,
          last_failed_searchers, gen, out, mode, run, prev, runs, op>>

----------------------------------------------------------------------------
(* Bounds of the model *)

MaxBatch == 2        \* longest list a provider returns in SpecDedup
MaxRuns == 2         \* run_all_searches calls per behaviour
Horizon == 3         \* clock ticks after StartTime
StartTime == 5       \* time.time() when the program starts (far from 0)
expiry_seconds == 3  \* CacheManager.expiry_seconds, a constructor parameter

MaxTime == StartTime + Horizon

\* F applied to the value of v: the argument is evaluated once, before the
\* call, as Python evaluates it
Once(F(_), v) == CHOOSE r \in {F(x) : x \in {v}} : TRUE

----------------------------------------------------------------------------
(* Strings *)

Str_NA      == <<"N", "/", "A">>
Str_na      == <<"n", "/", "a">>
Str_empty   == <<>>

LowerChar(c) ==
    CASE c = "A" -> "a"
      [] c = "G" -> "g"
      [] c = "N" -> "n"
      [] c = "T" -> "t"
      [] c = "U" -> "u"
      [] c = "X" -> "x"
      [] OTHER -> c

\* str.lower()
Lower(s) == [i \in 1..Len(s) |-> LowerChar(s[i])]

RECURSIVE LStrip(_)
LStrip(s) == IF s # <<>> /\ Head(s) = " " THEN LStrip(Tail(s)) ELSE s

RECURSIVE RStrip(_)
RStrip(s) == IF s # <<>> /\ s[Len(s)] = " " THEN RStrip(SubSeq(s, 1, Len(s) - 1)) ELSE s

\* str.strip()
Strip(s) == RStrip(LStrip(s))

----------------------------------------------------------------------------
(* Providers and their searcher classes *)

S2     == "Semantic Scholar"
ARXIV  == "arXiv"
PUBMED == "PubMed"

Providers == {S2, ARXIV, PUBMED}

\* search(query, limit, search_type, filters) is what the Aggregator calls;
\* PubmedSearcher.search takes (query, limit) only, so the call is a TypeError.
AcceptsCall(p) == p # PUBMED

\* ArxivSearcher.search ends in "except Exception"; SemanticScholarSearcher
\* catches requests exceptions only.
CatchesAll(p) == p = ARXIV

\* ArxivSearcher passes no filters to _get_from_cache / _save_to_cache.
PassesFilters(p) == p = S2

\* self.rate_limit, in half seconds
rate_limit(p) == IF p = S2 THEN 2 ELSE 1

----------------------------------------------------------------------------
(* Queries *)

\* A filters dict is the sequence of its items <<key, value>> in insertion
\* order, with distinct keys (Python dicts keep insertion order).

\* The filter keys of get_filter_options, in the order of Python's string
\* comparison
FilterKeyOrder == <<"min_citations", "year_max", "year_min">>

KeyRank(k) == CHOOSE i \in DOMAIN FilterKeyOrder : FilterKeyOrder[i] = k

NoneValue == 0 - 1      \* Python's None as a filter value

Digit(d) == <<"0", "1", "2", "3", "4", "5", "6", "7", "8", "9">>[d + 1]

RECURSIVE Digits(_)
Digits(n) == IF n < 10 THEN <<Digit(n)>> ELSE Digits(n \div 10) \o <<Digit(n % 10)>>

\* str(n) as an f-string formats an int
NumStr(n) == IF n < 0 THEN <<"-">> \o Digits(0 - n) ELSE Digits(n)

NoFilters == <<>>      \* filters or {}

RECURSIVE Insert(_, _)
\* item put into the sorted list of items, before the first item with a
\* greater key
Insert(item, sorted_items) ==
    IF sorted_items = <<>> THEN <<item>>
    ELSE IF KeyRank(item[1]) < KeyRank(Head(sorted_items)[1])
         THEN <<item>> \o sorted_items
         ELSE <<Head(sorted_items)>> \o Insert(item, Tail(sorted_items))

\* Mutant of SortedItems: the items are left in the order of the dict
SortedItems_unsorted(filters) == filters

RECURSIVE SortedItems(_)
\* sorted(filters.items())
SortedItems(filters) ==
    IF filters = <<>> THEN <<>>
    ELSE Insert(Head(filters), SortedItems(Tail(filters)))

RECURSIVE FilterParts(_, _)
\* [f"{k}_{v}" for k, v in sorted_filters if v is not None], from position i
FilterParts(sorted_filters, i) ==
    IF i > Len(sorted_filters) THEN <<>>
    ELSE LET k == sorted_filters[i][1]
             v == sorted_filters[i][2]
         IN  IF v # NoneValue
             THEN <<(<<k, "_">> \o NumStr(v))>> \o FilterParts(sorted_filters, i + 1)
             ELSE FilterParts(sorted_filters, i + 1)

RECURSIVE JoinUnderscore(_)
\* "_".join(parts)
JoinUnderscore(parts) ==
    IF parts = <<>> THEN <<>>
    ELSE IF Len(parts) = 1 THEN parts[1]
    ELSE parts[1] \o <<"_">> \o JoinUnderscore(Tail(parts))

\* CacheManager._generate_cache_key; the md5 digest of key_string is modelled
\* by key_string itself (a collision-free hash).
_generate_cache_key(query, source, limit, search_type, filters) ==
    LET filter_str == IF filters # <<>>
                      THEN <<"_">> \o JoinUnderscore(FilterParts(SortedItems(filters), 1))
                      ELSE <<>>
    IN  Lower(query) \o <<"_", source, "_">> \o NumStr(limit) \o <<"_", search_type>> \o filter_str

----------------------------------------------------------------------------
(* CacheManager *)

\* Mutant of _is_cache_valid: a file is still valid when its age is the expiry
_is_cache_valid_inclusive(c, cache_key, now) ==
    /\ cache_key \in DOMAIN c
    /\ now - c[cache_key].mtime <= expiry_seconds

\* CacheManager._is_cache_valid
_is_cache_valid(c, cache_key, now) ==
    /\ cache_key \in DOMAIN c
    /\ now - c[cache_key].mtime < expiry_seconds

\* What a cache file holds, as open() and json.load find it:
\*   "none"        the JSON text json.dump wrote
\*   "json"        text that is not JSON (a write that was cut):
\*                 json.JSONDecodeError
\*   "bytes"       bytes that are not UTF-8 (a write that was cut inside a
\*                 multi-byte character; ensure_ascii=False): UnicodeDecodeError
\*   "unreadable"  open() fails: IOError
Damages == {"none", "json", "bytes", "unreadable"}

\* except (json.JSONDecodeError, IOError)
CaughtOnRead(damage) == damage \in {"json", "unreadable"}

\* CacheManager.get: [hit, results, raised]; hit = FALSE is the None result,
\* raised = TRUE an exception that leaves get
CacheGet(c, query, source, limit, search_type, filters, now) ==
    LET Load(cache_key) ==
            IF _is_cache_valid(c, cache_key, now)
            THEN IF c[cache_key].damage = "none"
                 THEN [hit |-> TRUE, results |-> c[cache_key].results, raised |-> FALSE]
                 ELSE [hit |-> FALSE, results |-> <<>>,
                       raised |-> ~CaughtOnRead(c[cache_key].damage)]
            ELSE [hit |-> FALSE, results |-> <<>>, raised |-> FALSE]
    IN  Once(Load, _generate_cache_key(query, source, limit, search_type, filters))

\* What happens to the write of CacheManager.set:
\*   "none"         it succeeds
\*   "open"         open(cache_path, 'w') raises IOError; the file is untouched
\*   "cut"          json.dump raises IOError (disk full); the file is left cut
\*   "cut_in_char"  the same, cut inside a multi-byte character
WriteFaults == {"none", "open", "cut", "cut_in_char"}

\* Mutant of WriteFile: a file that is there is not written again
WriteFile_keep(old, results, now, fault) ==
    IF old.present THEN old
    ELSE [present |-> TRUE, results |-> results, mtime |-> now, damage |-> "none"]

\* with open(cache_path, 'w') ...: json.dump(results, f), and the except
\* IOError clause: the file afterwards (present = FALSE: no file)
WriteFile(old, results, now, fault) ==
    CASE fault = "none" -> [present |-> TRUE, results |-> results, mtime |-> now,
                            damage |-> "none"]
      [] fault = "open" -> old
      [] fault = "cut"  -> [present |-> TRUE, results |-> <<>>, mtime |-> now,
                            damage |-> "json"]
      [] OTHER          -> [present |-> TRUE, results |-> <<>>, mtime |-> now,
                            damage |-> "bytes"]

\* The file of cache_key in directory c
FileAt(c, cache_key) ==
    LET Stat(k) ==
            IF k \in DOMAIN c
            THEN [present |-> TRUE, results |-> c[k].results,
                  mtime |-> c[k].mtime, damage |-> c[k].damage]
            ELSE [present |-> FALSE, results |-> <<>>, mtime |-> 0, damage |-> "none"]
    IN  Once(Stat, cache_key)

\* Mutant of CacheSetIO: an empty list is written like any other
CacheSetIO_empty(c, query, source, limit, results, search_type, filters, now, fault) ==
    LET Dump(cache_key) ==
            [k \in DOMAIN c \cup {cache_key} |->
                IF k = cache_key THEN [results |-> results, mtime |-> now, damage |-> "none"]
                ELSE c[k]]
    IN  Once(Dump, _generate_cache_key(query, source, limit, search_type, filters))

\* CacheManager.set when the write meets the fault: the cache directory after
\* the call (set returns normally in every case)
CacheSetIO(c, query, source, limit, results, search_type, filters, now, fault) ==
    IF results = <<>> THEN c
    ELSE LET Dump(cache_key) ==
                 LET Put(file) ==
                         IF ~file.present THEN c
                         ELSE [k \in DOMAIN c \cup {cache_key} |->
                                 IF k = cache_key
                                 THEN [results |-> file.results, mtime |-> file.mtime,
                                       damage |-> file.damage]
                                 ELSE c[k]]
                 IN  Once(Put, WriteFile(FileAt(c, cache_key), results, now, fault))
         IN  Once(Dump, _generate_cache_key(query, source, limit, search_type, filters))

\* CacheManager.set: the cache directory after the call
CacheSet(c, query, source, limit, results, search_type, filters, now) ==
    CacheSetIO(c, query, source, limit, results, search_type, filters, now, "none")

\* CacheManager.clear
CacheClear(c) == [k \in {} |-> 0]

\* Mutant of CacheClearExpired: every file is removed
CacheClearExpired_all(c, now) == [k \in {} |-> 0]

\* CacheManager.clear_expired
CacheClearExpired(c, now) ==
    [k \in {x \in DOMAIN c : _is_cache_valid(c, x, now)} |-> c[k]]

----------------------------------------------------------------------------
(* BaseSearcher *)

\* Mutant of _enforce_rate_limit: the call never sleeps
_enforce_rate_limit_nowait(last, limit, now) == now

\* BaseSearcher._enforce_rate_limit: the clock after the call, which is also the
\* new _last_request_time
_enforce_rate_limit(last, limit, now) ==
    LET time_since_last_request == now - last IN
    IF time_since_last_request < limit
    THEN now + (limit - time_since_last_request)
    ELSE now

\* Mutant of _get_from_cache: the cache is never read
_get_from_cache_miss(p, c, q, now) == [hit |-> FALSE, results |-> <<>>, raised |-> FALSE]

\* BaseSearcher._get_from_cache as each searcher calls it
_get_from_cache(p, c, q, now) ==
    CacheGet(c, q.query, p, q.limit, q.search_type,
             IF PassesFilters(p) THEN q.filters ELSE NoFilters, now)

\* BaseSearcher._save_to_cache as each searcher calls it; fault is what
\* happens to the write
_save_to_cache(p, c, q, results, now, fault) ==
    IF results # <<>>
    THEN CacheSetIO(c, q.query, p, q.limit, results, q.search_type,
                    IF PassesFilters(p) THEN q.filters ELSE NoFilters, now, fault)
    ELSE c

----------------------------------------------------------------------------
(* Provider responses and the searchers' search methods *)

\* What the provider's answer turns into inside search():
\*   "ok"             the response parses; items are the parsed papers
\*   "request_error"  requests raises (timeout, HTTP status, connection)
\*   "parse_error"    the response is malformed: parsing raises (KeyError,
\*                    AttributeError, ...) after items have been appended
MakeResponse(kind, items) == [kind |-> kind, items |-> items]

\* The same with what happens to the cache write that follows an "ok" answer
MakeResponseIO(kind, items, fault) == [kind |-> kind, items |-> items, fault |-> fault]

WriteFault(resp) == IF "fault" \in DOMAIN resp THEN resp.fault ELSE "none"

\* paper = {'Title': ..., 'DOI': ..., 'Source': self.name, ...}
Paper(item, p) == [Title |-> item.Title, DOI |-> item.DOI, Source |-> p]

Papers(items, p) == [i \in 1..Len(items) |-> Paper(items[i], p)]

NoEntry == [present |-> FALSE, results |-> <<>>, mtime |-> 0, damage |-> "none"]

\* The cache file of searcher p for query q, as the directory holds it
EntryOf(p, c, q) ==
    FileAt(c, _generate_cache_key(q.query, p, q.limit, q.search_type,
                                  IF PassesFilters(p) THEN q.filters ELSE NoFilters))

\* Mutant of OnCacheHit: the rate limiter is called before the cached list is used
OnCacheHit_throttled(p, cached_results, c, now, last) ==
    LET t == _enforce_rate_limit(last, rate_limit(p), now) IN
    [raised |-> FALSE, results |-> cached_results.results, cache |-> c,
     clock |-> t, last |-> t,
     hit |-> TRUE, acquired |-> TRUE, requested |-> FALSE, looked_up |-> TRUE]

\* The cache-hit branch of search: self.results = cached_results; return
OnCacheHit(p, cached_results, c, now, last) ==
    [raised |-> FALSE, results |-> cached_results.results, cache |-> c,
     clock |-> now, last |-> last,
     hit |-> TRUE, acquired |-> FALSE, requested |-> FALSE, looked_up |-> TRUE]

\* searcher.search(query, limit, search_type, filters) followed by
\* searcher.get_results(), for searcher p with provider answer resp.
\* The result carries what the call did: raised (an exception left search),
\* results (self.results), the cache directory, the clock and
\* _last_request_time afterwards, and for the record whether the cache was
\* hit, the rate limiter called and the provider requested.
search(p, q, c, now, last, resp) ==
    IF ~AcceptsCall(p)
    THEN \* TypeError: search() takes 3 positional arguments but 5 were given
         [raised |-> TRUE, results |-> <<>>, cache |-> c, clock |-> now, last |-> last,
          hit |-> FALSE, acquired |-> FALSE, requested |-> FALSE, looked_up |-> FALSE]
    ELSE
    LET \* self._enforce_rate_limit() has returned at time t: the request
        Fetch(t) ==
            LET Parse(parsed) ==
                CASE resp.kind = "ok" ->
                       [raised |-> FALSE, results |-> parsed,
                        cache |-> _save_to_cache(p, c, q, parsed, t, WriteFault(resp)),
                        clock |-> t, last |-> t,
                        hit |-> FALSE, acquired |-> TRUE, requested |-> TRUE,
                        looked_up |-> TRUE]
                  [] resp.kind = "request_error" ->
                       [raised |-> FALSE, results |-> <<>>, cache |-> c, clock |-> t,
                        last |-> t,
                        hit |-> FALSE, acquired |-> TRUE, requested |-> TRUE,
                        looked_up |-> TRUE]
                  [] OTHER -> \* parse_error
                       [raised |-> ~CatchesAll(p), results |-> parsed, cache |-> c,
                        clock |-> t, last |-> t,
                        hit |-> FALSE, acquired |-> TRUE, requested |-> TRUE,
                        looked_up |-> TRUE]
            IN  Once(Parse, Papers(resp.items, p))
        AfterLookup(cached_results) ==
            IF cached_results.raised
            THEN \* the exception leaves _get_from_cache, which is called outside
                 \* any try
                 [raised |-> TRUE, results |-> <<>>, cache |-> c, clock |-> now,
                  last |-> last,
                  hit |-> FALSE, acquired |-> FALSE, requested |-> FALSE,
                  looked_up |-> TRUE]
            ELSE IF cached_results.hit /\ cached_results.results # <<>>
            THEN OnCacheHit(p, cached_results, c, now, last)
            ELSE Once(Fetch, _enforce_rate_limit(last, rate_limit(p), now))
    IN  Once(AfterLookup, _get_from_cache(p, c, q, now))

----------------------------------------------------------------------------
(* A searcher that hands over the records it was constructed with *)

\* class MockSearcher(BaseSearcher): any subclass of BaseSearcher passes
\* add_searcher, and its records are not built by the searchers of the package
MOCK == "Mock"

\* A value of a record field that is not a string (None: the value
\* OpenAlexSearcher stores for a work without 'doi' or 'display_name').  The
\* characters of a string are single characters, so no string equals it.
NotAString == <<"None">>

IsString(v) == v # NotAString

\* MockSearcher.search followed by get_results: raises if should_fail, else
\* the results the searcher was constructed with; no cache, no rate limiter
MockSearcher_search(p, c, now, last, resp) ==
    [raised |-> resp.kind = "should_fail",
     results |-> IF resp.kind = "should_fail" THEN <<>> ELSE Papers(resp.items, p),
     cache |-> c, clock |-> now, last |-> last,
     hit |-> FALSE, acquired |-> FALSE, requested |-> FALSE, looked_up |-> FALSE]

\* searcher.search(query, limit, search_type, filters); searcher.get_results()
\* on whatever searcher the list holds
searcher_search(p, q, c, now, last, resp) ==
    IF p = MOCK THEN MockSearcher_search(p, c, now, last, resp)
    ELSE search(p, q, c, now, last, resp)

----------------------------------------------------------------------------
(* Aggregator._process_searchers *)

\* Mutant of NormDoi: the DOI is compared as it came
NormDoi_raw(result) == result.DOI

\* doi = result.get('DOI', '').lower().strip()
NormDoi(result) == Strip(Lower(result.DOI))

\* title = result.get('Title', '').lower().strip()
NormTitle(result) == Strip(Lower(result.Title))

\* Mutant of Dedup: one set of seen keys serves DOIs and titles
Dedup_shared(result, seen_dois, seen_titles_without_doi) ==
    LET doi == NormDoi(result)
        title == NormTitle(result)
        key == IF doi # <<>> /\ doi # Str_na THEN doi ELSE title
        seen == seen_dois \cup seen_titles_without_doi
    IN  IF key \in seen
        THEN [is_duplicate |-> TRUE, seen_dois |-> seen_dois,
              seen_titles_without_doi |-> seen_titles_without_doi]
        ELSE [is_duplicate |-> FALSE, seen_dois |-> seen_dois \cup {key},
              seen_titles_without_doi |-> seen_titles_without_doi]

\* The de-duplication step for one result: is it a duplicate, and the two
\* sets afterwards
Dedup(result, seen_dois, seen_titles_without_doi) ==
    LET doi == NormDoi(result)
        title == NormTitle(result)
    IN  IF doi # <<>> /\ doi # Str_na
        THEN IF doi \in seen_dois
             THEN [is_duplicate |-> TRUE, seen_dois |-> seen_dois,
                   seen_titles_without_doi |-> seen_titles_without_doi]
             ELSE [is_duplicate |-> FALSE, seen_dois |-> seen_dois \cup {doi},
                   seen_titles_without_doi |-> seen_titles_without_doi]
        ELSE IF title \in seen_titles_without_doi
             THEN [is_duplicate |-> TRUE, seen_dois |-> seen_dois,
                   seen_titles_without_doi |-> seen_titles_without_doi]
             ELSE [is_duplicate |-> FALSE, seen_dois |-> seen_dois,
                   seen_titles_without_doi |-> seen_titles_without_doi \cup {title}]

NoPaper == [Title |-> <<>>, DOI |-> <<>>, Source |-> ""]

NoResponse == MakeResponse("none", <<>>)

NoQuery == [query |-> <<>>, limit |-> 0, search_type |-> "", filters |-> NoFilters]

\* No generator object
GenIdle ==
    [status |-> "none", idx |-> 0, pos |-> 0, raw_results |-> <<>>,
     seen_dois |-> {}, seen_titles_without_doi |-> {}, q |-> NoQuery, scen |-> <<>>]

\* Calling _process_searchers(query, limit, search_type, filters): a generator
\* object whose body has not started.  scen is the answer each provider gives
\* during this run.
_process_searchers(q, scen) == [GenIdle EXCEPT !.status = "created", !.q = q, !.scen = scen]

\* The generator after StopIteration
GenDone == [GenIdle EXCEPT !.status = "done"]

\* Mutant of ResetTracking: the lists of the run before are kept
ResetTracking_none(m) == m

\* Reset tracking for this run.
ResetTracking(m) == [m EXCEPT !.succ = <<>>, !.fail = <<>>]

\* Mutant of HandleException: the failure ends the loop over the searchers
HandleException_abort(m, p) == [m EXCEPT !.fail = Append(@, p), !.g.idx = 1000]

\* except Exception: self.last_failed_searchers.append(searcher.name); the loop
\* goes on with the next searcher
HandleException(m, p) == [m EXCEPT !.fail = Append(@, p), !.g.idx = @ + 1]

\* The same except clause reached from inside the loop over raw_results:
\* result.get('DOI', '').lower() raises AttributeError on a value that is not
\* a string; what was yielded and added to the seen sets before stays
HandleBatchException(m, p) ==
    [m EXCEPT !.fail = Append(@, p), !.g.idx = @ + 1, !.g.pos = 0, !.g.raw_results = <<>>]

\* Mutant of MarkSuccessful: the loop leaves out the searcher after this one
MarkSuccessful_skip(m, p) ==
    [m EXCEPT !.succ = Append(@, p), !.g.idx = @ + 2, !.g.pos = 0, !.g.raw_results = <<>>]

\* self.last_successful_searchers.append(searcher.name); next searcher
MarkSuccessful(m, p) ==
    [m EXCEPT !.succ = Append(@, p), !.g.idx = @ + 1, !.g.pos = 0, !.g.raw_results = <<>>]

\* Mutant of ResultAt: the batch is walked from its end
ResultAt_reversed(raw_results, pos) == raw_results[Len(raw_results) - pos + 1]

\* for result in raw_results: the result the loop is at
ResultAt(raw_results, pos) == raw_results[pos]

RECURSIVE Continue(_, _)
\* The body of _process_searchers from its current position up to the next
\* yield or to its end.  The machine m bundles the state the body reads and
\* writes.
Continue(list, machine) ==
    LET Body(m) ==
    LET g == m.g IN
    IF g.idx > Len(list)
    THEN [m EXCEPT !.g = GenDone]
    ELSE
    LET p == list[g.idx] IN
    IF g.pos = 0
    THEN \* try: searcher.search(...); raw_results = searcher.get_results()
         LET Searched(r) ==
             LET attempt == [name |-> p, idx |-> g.idx,
                             kind |-> IF AcceptsCall(p) /\ ~r.hit THEN g.scen[p].kind
                                      ELSE "none",
                             fault |-> IF AcceptsCall(p) /\ r.requested
                                       THEN WriteFault(g.scen[p]) ELSE "none",
                             raised |-> r.raised, results |-> r.results, hit |-> r.hit,
                             acquired |-> r.acquired, requested |-> r.requested,
                             entry_before |-> IF r.looked_up THEN EntryOf(p, m.cache, g.q)
                                              ELSE NoEntry,
                             time_before |-> m.clock,
                             last_before |-> m.lrt[p], last_after |-> r.last]
                 m1 == [m EXCEPT !.cache = r.cache, !.clock = r.clock, !.lrt[p] = r.last,
                                 !.log = Append(@, attempt)]
             IN  IF r.raised
                 THEN HandleException(m1, p)
                 ELSE [m1 EXCEPT !.g.raw_results = r.results, !.g.pos = 1]
         IN  Continue(list, Once(Searched,
                                 searcher_search(p, g.q, m.cache, m.clock, m.lrt[p],
                                        IF AcceptsCall(p) THEN g.scen[p] ELSE NoResponse)))
    ELSE IF g.pos > Len(g.raw_results)
    THEN Continue(list, MarkSuccessful(m, p))
    ELSE IF ~IsString(ResultAt(g.raw_results, g.pos).DOI)
            \/ ~IsString(ResultAt(g.raw_results, g.pos).Title)
    THEN Continue(list, HandleBatchException(m, p))
    ELSE LET Tested(d) ==
             LET result == ResultAt(g.raw_results, g.pos)
                 m1 == [m EXCEPT !.g.seen_dois = d.seen_dois,
                                 !.g.seen_titles_without_doi = d.seen_titles_without_doi,
                                 !.processed = Append(@, [idx |-> g.idx, pos |-> g.pos,
                                                          result |-> result,
                                                          dropped |-> d.is_duplicate])]
             IN  IF d.is_duplicate
                 THEN Continue(list, [m1 EXCEPT !.g.pos = @ + 1])
                 ELSE \* yield result
                      [m1 EXCEPT !.g.status = "suspended", !.yielded = result]
         IN  Once(Tested, Dedup(ResultAt(g.raw_results, g.pos), g.seen_dois,
                                g.seen_titles_without_doi))
    IN  Once(Body, machine)

\* Mutant of Resume: next() runs the body on to the second yield, one record
\* ahead of the consumer
Resume_ahead(list, m) ==
    LET Ahead(m1) ==
            IF m1.g.status = "suspended"
            THEN Continue(list, [m1 EXCEPT !.g.status = "running", !.g.pos = @ + 1])
            ELSE m1
    IN  IF m.g.status = "created"
        THEN Once(Ahead, Continue(list, [ResetTracking(m) EXCEPT
                                  !.g.status = "running", !.g.idx = 1, !.g.pos = 0,
                                  !.g.seen_dois = {}, !.g.seen_titles_without_doi = {}]))
        ELSE Once(Ahead, Continue(list, [m EXCEPT !.g.status = "running", !.g.pos = @ + 1]))

\* next() on the generator object: from its creation, or from the yield it is
\* suspended at
Resume(list, m) ==
    IF m.g.status = "created"
    THEN Continue(list, [ResetTracking(m) EXCEPT
                                  !.g.status = "running", !.g.idx = 1, !.g.pos = 0,
                                  !.g.seen_dois = {}, !.g.seen_titles_without_doi = {}])
    ELSE Continue(list, [m EXCEPT !.g.status = "running", !.g.pos = @ + 1])

RECURSIVE Drain(_, _, _)
\* list(generator): next() until StopIteration, collecting what is yielded
Drain(list, m, acc) ==
    LET Collect(m1) ==
            IF m1.g.status = "done"
            THEN [m |-> m1, all_results |-> acc]
            ELSE Drain(list, m1, Append(acc, m1.yielded))
    IN  Once(Collect, Resume(list, m))

\* Mutant of run_all_searches_list: the list is cut after its first record
run_all_searches_list_cut(list, q, scen, m) ==
    LET r == Drain(list, [m EXCEPT !.g = _process_searchers(q, scen)], <<>>) IN
    [r EXCEPT !.all_results = SubSeq(@, 1, IF Len(@) > 1 THEN 1 ELSE Len(@))]

\* run_all_searches(..., stream=False): all_results = list(self._process_searchers(...))
run_all_searches_list(list, q, scen, m) ==
    Drain(list, [m EXCEPT !.g = _process_searchers(q, scen)], <<>>)

\* Aggregator.get_last_run_summary
get_last_run_summary ==
    [successful |-> last_successful_searchers, failed |-> last_failed_searchers]

----------------------------------------------------------------------------
(* The values the model draws its inputs from *)

Range(f) == {f[x] : x \in DOMAIN f}

\* Aggregator.searchers after the add_searcher calls of main(): searchers of
\* distinct providers, in any order
SearcherLists ==
    {l \in UNION {[1..n -> Providers] : n \in 1..Cardinality(Providers)} :
        \A i, j \in DOMAIN l : i # j => l[i] # l[j]}

\* One order of the vendors (get_searcher_selection accepts the numbers in any
\* order), with PubMed between the two searchers that can be called
Menu == <<S2, PUBMED, ARXIV>>

MenuIndex(p) == CHOOSE a \in DOMAIN Menu : Menu[a] = p

\* The selections that keep this order
MenuLists ==
    {l \in SearcherLists : \A i, j \in DOMAIN l : i < j => MenuIndex(l[i]) < MenuIndex(l[j])}

\* Parsed papers (Title, DOI).  Item_a and Item_b share a DOI up to case and
\* blanks.  Item_c and Item_d have no DOI: the title of Item_c is the title of
\* Item_a up to case and blanks and reads like its DOI; the title of Item_d
\* is the title of Item_b up to case and blanks.
Item_a == [Title |-> <<"1", "0", ".", "X", " ">>, DOI |-> <<"1", "0", ".", "x">>]
Item_b == [Title |-> <<"U">>,                     DOI |-> <<" ", "1", "0", ".", "X">>]
Item_c == [Title |-> <<"1", "0", ".", "x">>,      DOI |-> Str_NA]
Item_d == [Title |-> <<" ", "u">>,                DOI |-> Str_empty]

Items == {Item_a, Item_b, Item_c, Item_d}

Batches == UNION {[1..n -> Items] : n \in 0..MaxBatch}

\* Provider answers of the multi-run specification
SmallResponses ==
    {MakeResponse("ok", <<>>), MakeResponse("ok", <<Item_a, Item_c>>),
     MakeResponse("request_error", <<>>), MakeResponse("parse_error", <<Item_d>>)}

\* Provider answers of the single-run specification
RichResponses ==
    {MakeResponse("ok", b) : b \in Batches}
        \cup {MakeResponse("request_error", <<>>), MakeResponse("parse_error", <<Item_c>>)}

Fetchers(list) == {p \in Range(list) : AcceptsCall(p)}

Scenarios(list, R) == [Fetchers(list) -> R]

TheQuery(text) == [query |-> text, limit |-> 10, search_type |-> "keyword",
                   filters |-> NoFilters]

Queries == {TheQuery(<<"G">>)}

----------------------------------------------------------------------------
(* History of a run *)

NoExpected == [all_results |-> <<>>, successful |-> <<>>, failed |-> <<>>]

NoRun == [q |-> NoQuery, log |-> <<>>, processed |-> <<>>,
          expected |-> NoExpected, stored |-> {}, allcached |-> FALSE]

NoPrev == [valid |-> FALSE, q |-> NoQuery, out |-> <<>>, stored |-> {},
           allcached |-> FALSE]

\* An attempt left the searcher's result in the cache: it was read from it,
\* or fetched, non-empty and saved
LeftInCache(a) == ~a.raised /\ a.results # <<>> /\ (a.hit \/ a.kind = "ok")

\* The cache files the finished run leaves for its searchers
StoredBy(log, c, q) ==
    {[name |-> log[i].name, mtime |-> EntryOf(log[i].name, c, q).mtime] :
        i \in {j \in DOMAIN log : LeftInCache(log[j]) /\ EntryOf(log[j].name, c, q).present}}

AllCached(log, c, q) ==
    \A i \in DOMAIN log : LeftInCache(log[i]) /\ EntryOf(log[i].name, c, q).present

\* What is remembered of the finished run when the next one starts
PrevOf == IF mode = "none" THEN NoPrev
          ELSE [valid |-> TRUE, q |-> run.q, out |-> out, stored |-> run.stored,
                allcached |-> run.allcached]

StreamActive == gen.status \in {"created", "suspended"}

\* No call made on a component directly
NoOp == [name |-> "none"]

----------------------------------------------------------------------------
(* Actions *)

Machine(log, processed) ==
    [cache |-> cache, clock |-> clock, lrt |-> last_request_time,
     succ |-> last_successful_searchers, fail |-> last_failed_searchers,
     g |-> gen, log |-> log, processed |-> processed, yielded |-> NoPaper]

Install(m) ==
    /\ cache' = m.cache
    /\ clock' = m.clock
    /\ last_request_time' = m.lrt
    /\ last_successful_searchers' = m.succ
    /\ last_failed_searchers' = m.fail

InitWith(lists) ==
    /\ searchers \in lists
    /\ cache = CacheClear(<<>>)
    /\ clock = StartTime
    /\ last_request_time = [p \in Providers |-> 0]
    /\ last_successful_searchers = <<>>
    /\ last_failed_searchers = <<>>
    /\ gen = GenIdle
    /\ out = <<>>
    /\ mode = "none"
    /\ run = NoRun
    /\ prev = NoPrev
    /\ runs = 0
    /\ op = NoOp

Init == InitWith(MenuLists)

\* results = aggregator.run_all_searches(query, limit, ...)
RunAllList(q, scen) ==
    /\ ~StreamActive
    /\ \E r \in {run_all_searches_list(searchers, q, scen, Machine(<<>>, <<>>))} :
        /\ r.m.clock <= MaxTime
        /\ Install(r.m)
        /\ gen' = GenIdle
        /\ out' = r.all_results
        /\ run' = [NoRun EXCEPT !.q = q, !.log = r.m.log, !.processed = r.m.processed,
                                !.stored = StoredBy(r.m.log, r.m.cache, q),
                                !.allcached = AllCached(r.m.log, r.m.cache, q)]
    /\ mode' = "list"
    /\ prev' = PrevOf
    /\ runs' = runs + 1
    /\ UNCHANGED <<searchers, op>>

\* stream = aggregator.run_all_searches(query, limit, ..., stream=True)
StartStream(q, scen) ==
    /\ ~StreamActive
    /\ gen' = _process_searchers(q, scen)
    /\ out' = <<>>
    /\ mode' = "stream"
    /\ \E r \in {run_all_searches_list(searchers, q, scen, Machine(<<>>, <<>>))} :
        run' = [NoRun EXCEPT !.q = q,
                             !.expected = [all_results |-> r.all_results,
                                           successful |-> r.m.succ, failed |-> r.m.fail]]
    /\ prev' = PrevOf
    /\ runs' = runs + 1
    /\ UNCHANGED <<searchers, cache, clock, last_request_time,
                   last_successful_searchers, last_failed_searchers, op>>

\* next(stream): the consumer pulls one record, or finds the stream exhausted
Pull ==
    /\ StreamActive
    /\ \E m \in {Resume(searchers, Machine(run.log, run.processed))} :
        /\ m.clock <= MaxTime
        /\ Install(m)
        /\ gen' = m.g
        /\ out' = IF m.g.status = "done" THEN out ELSE Append(out, m.yielded)
        /\ run' = [run EXCEPT !.log = m.log, !.processed = m.processed,
                              !.stored = IF m.g.status = "done"
                                         THEN StoredBy(m.log, m.cache, run.q) ELSE @,
                              !.allcached = m.g.status = "done" /\ AllCached(m.log, m.cache, run.q)]
    /\ UNCHANGED <<searchers, mode, prev, runs, op>>

\* Time passes
Tick ==
    /\ clock < MaxTime
    /\ clock' = clock + 1
    /\ ~StreamActive
    /\ UNCHANGED <<searchers, cache, last_request_time, last_successful_searchers,
                   last_failed_searchers, gen, out, mode, run, prev, runs, op>>

\* Aggregator.clear_cache
clear_cache ==
    /\ cache' = CacheClear(cache)
    /\ ~StreamActive
    /\ UNCHANGED <<searchers, clock, last_request_time, last_successful_searchers,
                   last_failed_searchers, gen, out, mode, run, prev, runs, op>>

\* Aggregator.clear_expired_cache
clear_expired_cache ==
    /\ cache' = CacheClearExpired(cache, clock)
    /\ ~StreamActive
    /\ UNCHANGED <<searchers, clock, last_request_time, last_successful_searchers,
                   last_failed_searchers, gen, out, mode, run, prev, runs, op>>

Next ==
    \/ \E q \in Queries : \E scen \in Scenarios(searchers, SmallResponses) :
          runs < MaxRuns /\ RunAllList(q, scen)
    \/ \E q \in Queries : \E scen \in Scenarios(searchers, SmallResponses) :
          runs < MaxRuns /\ StartStream(q, scen)
    \/ Pull
    \/ Tick
    \/ clear_cache
    \/ clear_expired_cache

Spec == Init /\ [][Next]_vars

\* One run from the initial state, over every batch the providers can return
NextDedup ==
    \/ \E scen \in Scenarios(searchers, RichResponses) :
          runs = 0 /\ RunAllList(TheQuery(<<"G">>), scen)
    \/ \E scen \in Scenarios(searchers, RichResponses) :
          runs = 0 /\ StartStream(TheQuery(<<"G">>), scen)
    \/ Pull

\* The lists of searchers that can be called
DedupLists == {l \in SearcherLists : \A i \in DOMAIN l : AcceptsCall(l[i])}

InitDedup == InitWith(DedupLists)

SpecDedup == InitDedup /\ [][NextDedup]_vars

----------------------------------------------------------------------------
(* The CacheManager called directly *)

\* The arguments of a get or set call
CacheArgs(query, source, limit, search_type, filters) ==
    [query |-> query, source |-> source, limit |-> limit, search_type |-> search_type,
     filters |-> filters]

KeyOfArgs(a) == _generate_cache_key(a.query, a.source, a.limit, a.search_type, a.filters)

\* Calls on two fingerprints; the first two differ in the case of the query only
CacheCalls ==
    {CacheArgs(<<"G">>, S2, 10, "keyword", NoFilters),
     CacheArgs(<<"g">>, S2, 10, "keyword", NoFilters),
     CacheArgs(<<"G">>, ARXIV, 10, "keyword", NoFilters)}

\* The record lists handed to set
CacheLists ==
    {<<>>, <<Paper(Item_a, S2)>>, <<Paper(Item_c, ARXIV), Paper(Item_d, ARXIV)>>}

\* The most recent successful set on each fingerprint whose file has not been
\* removed since: what was written and when
LatestAfterSet(latest, a, results, now, fault) ==
    IF results = <<>> \/ fault = "open" THEN latest
    ELSE [k \in DOMAIN latest \cup {KeyOfArgs(a)} |->
            IF k = KeyOfArgs(a)
            THEN [results |-> results, time |-> now, written |-> fault = "none",
                  query |-> a.query,
                  over |-> KeyOfArgs(a) \in DOMAIN latest
                             /\ latest[KeyOfArgs(a)].results # results]
            ELSE latest[k]]

InitCache ==
    /\ searchers = <<>>
    /\ cache = CacheClear(<<>>)
    /\ clock = StartTime
    /\ last_request_time = [p \in Providers |-> 0]
    /\ last_successful_searchers = <<>>
    /\ last_failed_searchers = <<>>
    /\ gen = GenIdle
    /\ out = <<>>
    /\ mode = "none"
    /\ run = NoRun
    /\ prev = NoPrev
    /\ runs = 0
    /\ op = [name |-> "none", latest |-> <<>>]

\* cache_manager.set(query, source, limit, results, search_type, filters)
CacheManager_set(a, results, fault) ==
    /\ cache' = CacheSetIO(cache, a.query, a.source, a.limit, results, a.search_type,
                           a.filters, clock, fault)
    /\ op' = [name |-> "set", args |-> a, results |-> results, fault |-> fault,
              time |-> clock, before |-> cache, after |-> cache', raised |-> FALSE,
              latest |-> LatestAfterSet(op.latest, a, results, clock, fault)]
    /\ UNCHANGED <<searchers, clock, last_request_time, last_successful_searchers,
                   last_failed_searchers, gen, out, mode, run, prev, runs>>

\* cache_manager.get(query, source, limit, search_type, filters)
CacheManager_get(a) ==
    /\ \E got \in {CacheGet(cache, a.query, a.source, a.limit, a.search_type,
                             a.filters, clock)} :
          op' = [name |-> "get", args |-> a, time |-> clock, before |-> cache,
                 after |-> cache, got |-> got, raised |-> got.raised,
                 latest |-> op.latest]
    /\ UNCHANGED <<searchers, cache, clock, last_request_time, last_successful_searchers,
                   last_failed_searchers, gen, out, mode, run, prev, runs>>

\* cache_manager.clear()
CacheManager_clear ==
    /\ cache' = CacheClear(cache)
    /\ op' = [name |-> "clear", time |-> clock, before |-> cache, after |-> cache',
              raised |-> FALSE, latest |-> <<>>]
    /\ UNCHANGED <<searchers, clock, last_request_time, last_successful_searchers,
                   last_failed_searchers, gen, out, mode, run, prev, runs>>

\* cache_manager.clear_expired()
CacheManager_clear_expired ==
    /\ cache' = CacheClearExpired(cache, clock)
    /\ op' = [name |-> "clear_expired", time |-> clock, before |-> cache,
              after |-> cache', raised |-> FALSE,
              latest |-> [k \in DOMAIN op.latest \cap DOMAIN cache' |-> op.latest[k]]]
    /\ UNCHANGED <<searchers, clock, last_request_time, last_successful_searchers,
                   last_failed_searchers, gen, out, mode, run, prev, runs>>

NextCache ==
    \/ \E a \in CacheCalls : \E results \in CacheLists : CacheManager_set(a, results, "none")
    \/ \E a \in CacheCalls : CacheManager_get(a)
    \/ CacheManager_clear
    \/ CacheManager_clear_expired
    \/ Tick

SpecCache == InitCache /\ [][NextCache]_vars

----------------------------------------------------------------------------
(* _generate_cache_key called on two argument tuples *)

MaxFilters == 2     \* the most items a filters dict has

FilterValues == {NoneValue, 2020}

Min(a, b) == IF a < b THEN a ELSE b

\* The filters dicts with at most MaxFilters items: every choice of distinct
\* keys, in every insertion order, with every value
FilterDicts ==
    UNION {{f \in [1..n -> Range(FilterKeyOrder) \X FilterValues] :
                \A i, j \in 1..n : f[i][1] = f[j][1] => i = j} :
           n \in 0..Min(MaxFilters, Len(FilterKeyOrder))}

KeyQueries == {<<"G">>, <<"g">>}

\* The argument tuples of _generate_cache_key
KeyArgs ==
    {CacheArgs(query, source, limit, search_type, filters) :
        query \in KeyQueries, source \in {S2, ARXIV}, limit \in {5, 10},
        search_type \in {"keyword", "title"}, filters \in FilterDicts}

InitKey ==
    /\ searchers = <<>>
    /\ cache = CacheClear(<<>>)
    /\ clock = StartTime
    /\ last_request_time = [p \in Providers |-> 0]
    /\ last_successful_searchers = <<>>
    /\ last_failed_searchers = <<>>
    /\ gen = GenIdle
    /\ out = <<>>
    /\ mode = "none"
    /\ run = NoRun
    /\ prev = NoPrev
    /\ runs = 0
    /\ \E a \in KeyArgs : \E b \in KeyArgs : op = [name |-> "args", a |-> a, b |-> b]

\* cache_manager._generate_cache_key(...) on each of the two tuples
GenerateCacheKeys ==
    /\ op.name = "args"
    /\ op' = [name |-> "keys", a |-> op.a, b |-> op.b,
              key_a |-> KeyOfArgs(op.a), key_b |-> KeyOfArgs(op.b)]
    /\ UNCHANGED <<searchers, cache, clock, last_request_time, last_successful_searchers,
                   last_failed_searchers, gen, out, mode, run, prev, runs>>

NextKey == GenerateCacheKeys

SpecKey == InitKey /\ [][NextKey]_vars

----------------------------------------------------------------------------
(* Runs with the queries a caller can pass to run_all_searches *)

\* filters of get_filter_options: the years from 2020 with no end year, and
\* at least 5 citations
YearFilters == <<(<<"year_min", 2020>>), (<<"year_max", NoneValue>>)>>

CitationFilters == <<(<<"min_citations", 5>>)>>

WithFilters(q, filters) == [q EXCEPT !.filters = filters]

\* The same text, limit and search type with three filter sets
FilterQueries ==
    {WithFilters(TheQuery(<<"G">>), filters) :
        filters \in {NoFilters, YearFilters, CitationFilters}}

\* Calls get_user_input never makes: an empty text, a limit of 0
InvalidQueries == {TheQuery(<<>>), [TheQuery(<<"G">>) EXCEPT !.limit = 0]}

NextQueries ==
    \/ \E q \in FilterQueries \cup InvalidQueries :
       \E scen \in Scenarios(searchers, SmallResponses) :
          runs < MaxRuns /\ RunAllList(q, scen)
    \/ Tick

SpecQueries == InitDedup /\ [][NextQueries]_vars

----------------------------------------------------------------------------
(* Runs on a cache directory whose files can be cut or damaged *)

\* Provider answers that parse, with what happens to the cache write after them
FaultResponses ==
    {MakeResponseIO("ok", <<Item_a>>, fault) : fault \in WriteFaults}
        \cup {MakeResponse("ok", <<>>)}

\* A file of the cache directory is damaged from outside the program: written
\* over with text that is not JSON or with bytes that are not UTF-8, or made
\* unreadable
CorruptFile(cache_key, damage) ==
    /\ ~StreamActive
    /\ cache_key \in DOMAIN cache
    /\ cache[cache_key].damage = "none"
    /\ cache' = [cache EXCEPT ![cache_key] =
                    [results |-> <<>>,
                     mtime |-> IF damage = "unreadable" THEN @.mtime ELSE clock,
                     damage |-> damage]]
    /\ UNCHANGED <<searchers, clock, last_request_time, last_successful_searchers,
                   last_failed_searchers, gen, out, mode, run, prev, runs, op>>

NextFaults ==
    \/ \E scen \in Scenarios(searchers, FaultResponses) :
          runs < MaxRuns /\ RunAllList(TheQuery(<<"G">>), scen)
    \/ \E cache_key \in DOMAIN cache : \E damage \in Damages \ {"none"} :
          CorruptFile(cache_key, damage)
    \/ Tick

SpecFaults == InitDedup /\ [][NextFaults]_vars

----------------------------------------------------------------------------
(* The rate limiter of searcher instances *)

\* Searcher objects <<provider, number>>: two SemanticScholarSearcher objects
\* and one ArxivSearcher
Instances == {<<S2, 1>>, <<S2, 2>>, <<ARXIV, 1>>}

\* Mutant of SetLastRequestTime: _last_request_time is an attribute of the
\* class, shared by its instances
SetLastRequestTime_shared(lrt, inst, t) ==
    [j \in DOMAIN lrt |-> IF j[1] = inst[1] THEN t ELSE lrt[j]]

\* self._last_request_time = time.time(): an attribute of the instance
SetLastRequestTime(lrt, inst, t) == [lrt EXCEPT ![inst] = t]

\* BaseSearcher.__init__ of every instance: self._last_request_time = 0
InitLimiter ==
    /\ searchers = <<>>
    /\ cache = CacheClear(<<>>)
    /\ clock = StartTime
    /\ last_request_time = [inst \in Instances |-> 0]
    /\ last_successful_searchers = <<>>
    /\ last_failed_searchers = <<>>
    /\ gen = GenIdle
    /\ out = <<>>
    /\ mode = "none"
    /\ run = NoRun
    /\ prev = NoPrev
    /\ runs = 0
    /\ op = [name |-> "none", calls |-> [inst \in Instances |-> 0]]

\* inst._enforce_rate_limit(): the call returns at time t
EnforceRateLimit(inst) ==
    \E t \in {_enforce_rate_limit(last_request_time[inst], rate_limit(inst[1]), clock)} :
        /\ t <= MaxTime
        /\ clock' = t
        /\ last_request_time' = SetLastRequestTime(last_request_time, inst, t)
        /\ op' = [name |-> "acquire", inst |-> inst, started |-> clock, completed |-> t,
                  before |-> last_request_time, after |-> last_request_time',
                  calls |-> [op.calls EXCEPT ![inst] = @ + 1]]
        /\ UNCHANGED <<searchers, cache, last_successful_searchers,
                       last_failed_searchers, gen, out, mode, run, prev, runs>>

NextLimiter ==
    \/ \E inst \in Instances : EnforceRateLimit(inst)
    \/ Tick

SpecLimiter == InitLimiter /\ [][NextLimiter]_vars

----------------------------------------------------------------------------
(* list(generator), one next() at a time *)

\* all_results = list(self._process_searchers(...)): the generator object is
\* created and list() calls next() on it until StopIteration; list() never
\* stops before, so the next() calls are weakly fair
NextDrain ==
    \/ \E q \in Queries : \E scen \in Scenarios(searchers, SmallResponses) :
          runs = 0 /\ StartStream(q, scen)
    \/ Pull

SpecDrain == Init /\ [][NextDrain]_vars /\ WF_vars(Pull)

----------------------------------------------------------------------------
(* A stream the consumer gives up *)

\* The generator object after close(), or after the consumer dropped it:
\* GeneratorExit is raised at the yield the body is suspended at; it is not
\* an Exception, so the except clause of the loop does not see it and the
\* body is left at once
GenClosed == [GenIdle EXCEPT !.status = "closed"]

\* stream.close(), del stream, or leaving the for loop over the stream
CloseStream ==
    /\ StreamActive
    /\ gen' = GenClosed
    /\ UNCHANGED <<searchers, cache, clock, last_request_time, last_successful_searchers,
                   last_failed_searchers, out, mode, run, prev, runs, op>>

NextCancel ==
    \/ \E q \in Queries : \E scen \in Scenarios(searchers, SmallResponses) :
          runs < MaxRuns /\ StartStream(q, scen)
    \/ Pull
    \/ CloseStream
    \/ Tick

SpecCancel == Init /\ [][NextCancel]_vars

----------------------------------------------------------------------------
(* Records without a title *)

\* What a searcher builds from a provider record that has neither a title nor
\* a DOI: normalize_string and validate_doi both return 'N/A'
Item_untitled == [Title |-> Str_NA, DOI |-> Str_NA]

SentinelItems == {Item_a, Item_c, Item_untitled}

SentinelResponses ==
    {MakeResponse("ok", b) : b \in UNION {[1..n -> SentinelItems] : n \in 0..MaxBatch}}

NextSentinel ==
    \/ \E scen \in Scenarios(searchers, SentinelResponses) :
          runs = 0 /\ RunAllList(TheQuery(<<"G">>), scen)
    \/ \E scen \in Scenarios(searchers, SentinelResponses) :
          runs = 0 /\ StartStream(TheQuery(<<"G">>), scen)
    \/ Pull

SpecSentinel == InitDedup /\ [][NextSentinel]_vars

----------------------------------------------------------------------------
(* Runs with a searcher whose records are not built by the package *)

\* Records with a field that is not a string
Item_nodoi == [Title |-> <<"U">>, DOI |-> NotAString]
Item_notitle == [Title |-> NotAString, DOI |-> <<"1", "0", ".", "x">>]

MockItems == {Item_a, Item_c, Item_nodoi, Item_notitle}

\* MockSearcher(name, results, should_fail)
MockResponses ==
    {MakeResponse("mock", b) : b \in UNION {[1..n -> MockItems] : n \in 0..MaxBatch}}
        \cup {MakeResponse("should_fail", <<>>)}

\* Lists of distinct searchers with the mock searcher among them
MockLists ==
    {l \in UNION {[1..n -> {S2, MOCK, ARXIV}] : n \in 1..3} :
        /\ \A i, j \in DOMAIN l : i # j => l[i] # l[j]
        /\ \E i \in DOMAIN l : l[i] = MOCK}

\* The mock searcher with any of its results, the other searchers with the
\* provider answers of the multi-run specification
MockScenarios(list) ==
    {[p \in Range(list) |-> IF p = MOCK THEN r ELSE s[p]] :
        r \in MockResponses, s \in [Range(list) \ {MOCK} -> SmallResponses]}

InitMock ==
    /\ searchers \in MockLists
    /\ cache = CacheClear(<<>>)
    /\ clock = StartTime
    /\ last_request_time = [p \in Providers \cup {MOCK} |-> 0]
    /\ last_successful_searchers = <<>>
    /\ last_failed_searchers = <<>>
    /\ gen = GenIdle
    /\ out = <<>>
    /\ mode = "none"
    /\ run = NoRun
    /\ prev = NoPrev
    /\ runs = 0
    /\ op = NoOp

NextMock ==
    \/ runs = 0 /\ \E scen \in MockScenarios(searchers) :
                      RunAllList(TheQuery(<<"G">>), scen)
    \/ runs = 0 /\ \E scen \in MockScenarios(searchers) :
                      StartStream(TheQuery(<<"G">>), scen)
    \/ Pull

SpecMock == InitMock /\ [][NextMock]_vars

----------------------------------------------------------------------------
(* The search method of each searcher class, called on a cache miss *)

CROSSREF == "CrossRef"
GOOGLE == "Google Scholar"
OPENALEX == "OpenAlex"

\* The searcher classes of the package
SearcherClasses == {S2, ARXIV, PUBMED, CROSSREF, GOOGLE, OPENALEX}

\* n times the step
Repeat(step, n) == [i \in 1..n |-> step]

\* What search() does between the cache miss and the parsing, in the order of
\* the code, when the provider has n records: "acquire" is a call of
\* self._enforce_rate_limit(), "request" a request sent to a provider
SearchSteps(p, n) ==
    CASE p = S2 -> <<"acquire", "request">>
      [] p = ARXIV -> <<"acquire", "request">>
      [] p = CROSSREF -> <<"acquire", "request">>
      [] p = PUBMED ->
           \* esearch; with an empty id list the method returns; else efetch
           \* and one iCite request for each article
           IF n = 0 THEN <<"acquire", "request">>
           ELSE <<"acquire", "request", "acquire", "request">> \o Repeat("request", n)
      [] p = GOOGLE ->
           \* scholarly.search_pubs(search_query) sends the request; the rate
           \* limiter is called in the body of the loop over what came back
           <<"request">> \o Repeat("acquire", n)
      [] OTHER -> \* OpenAlex: Works().search(query).select(...).get(per_page=limit)
           <<"request">>

RECURSIVE RunSteps(_, _, _, _, _, _)
\* The steps from step i on, for a searcher with _last_request_time = last at
\* time now: the time and _last_request_time afterwards and the events in
\* their order, each with its time
RunSteps(steps, i, now, last, limit, events) ==
    IF i > Len(steps)
    THEN [clock |-> now, last |-> last, events |-> events]
    ELSE IF steps[i] = "acquire"
    THEN LET Acquired(t) ==
                 RunSteps(steps, i + 1, t, t, limit,
                          Append(events, [kind |-> "acquire", at |-> t]))
         IN  Once(Acquired, _enforce_rate_limit(last, limit, now))
    ELSE RunSteps(steps, i + 1, now, last, limit,
                  Append(events, [kind |-> "request", at |-> now]))

\* One searcher object, constructed without cache manager (every lookup is a
\* miss and nothing is saved)
InitAdapters ==
    /\ searchers \in {<<p>> : p \in SearcherClasses}
    /\ cache = CacheClear(<<>>)
    /\ clock = StartTime
    /\ last_request_time = [p \in SearcherClasses |-> 0]
    /\ last_successful_searchers = <<>>
    /\ last_failed_searchers = <<>>
    /\ gen = GenIdle
    /\ out = <<>>
    /\ mode = "none"
    /\ run = NoRun
    /\ prev = NoPrev
    /\ runs = 0
    /\ op = NoOp

\* searcher.search(query, limit) on the searcher object, the provider having n
\* records for the query
SearcherSearch(n) ==
    \E p \in {searchers[1]} :
    \E r \in {RunSteps(SearchSteps(p, n), 1, clock, last_request_time[p], rate_limit(p),
                       <<>>)} :
        /\ r.clock <= MaxTime
        /\ clock' = r.clock
        /\ last_request_time' = [last_request_time EXCEPT ![p] = r.last]
        /\ op' = [name |-> "search", source |-> p, found |-> n, started |-> clock,
                  events |-> r.events]
        /\ UNCHANGED <<searchers, cache, last_successful_searchers,
                       last_failed_searchers, gen, out, mode, run, prev, runs>>

NextAdapters ==
    \/ \E n \in 0..MaxBatch : SearcherSearch(n)
    \/ Tick

SpecAdapters == InitAdapters /\ [][NextAdapters]_vars

----------------------------------------------------------------------------
(* CacheManager calls of separate runs on one cache file, system call by       *)
(* system call                                                                 *)

\* The runs that share the cache directory; each makes one call
Procs == {1, 2, 3}

\* The text of a cache file is a sequence of tokens <<kind, w, i>>: the
\* brackets of the JSON list, record number i of the list of writer w, and
\* the zero bytes of a hole
TokOpen == <<"[", 0, 0>>
TokClose == <<"]", 0, 0>>
TokHole == <<"NUL", 0, 0>>

\* The results list of n records that run w hands to set
ResultsOf(w, n) == [i \in 1..n |-> <<"rec", w, i>>]

\* json.dump(results, f): the text written for a list
json_dump(results) == <<TokOpen>> \o results \o <<TokClose>>

\* json.load(f): the list, or JSONDecodeError if the text is not one list
json_load(text) ==
    IF /\ Len(text) >= 2
       /\ text[1] = TokOpen
       /\ text[Len(text)] = TokClose
       /\ \A i \in 2..(Len(text) - 1) : text[i][1] = "rec"
    THEN [ok |-> TRUE, list |-> SubSeq(text, 2, Len(text) - 1)]
    ELSE [ok |-> FALSE, list |-> <<>>]

\* write(2) of chunk at offset pos of a file opened without O_APPEND: the
\* bytes at these offsets are replaced, the file grows as needed, and a gap
\* between the old end and pos reads as zero bytes
WriteAt(text, pos, chunk) ==
    [i \in 1..(IF Len(text) > pos + Len(chunk) THEN Len(text) ELSE pos + Len(chunk)) |->
        IF i > pos /\ i <= pos + Len(chunk) THEN chunk[i - pos]
        ELSE IF i <= Len(text) THEN text[i]
        ELSE TokHole]

\* _is_cache_valid after exists(): file_age = time.time() - st_mtime;
\* return file_age < self.expiry_seconds
NotExpired(file, now) == now - file.mtime < expiry_seconds

\* No file at cache_path
NoFile == [present |-> FALSE, text |-> <<>>, mtime |-> 0]

NoReturn == [kind |-> "pending", list |-> <<>>]

\* return None
ReturnNone == [kind |-> "none", list |-> <<>>]

\* return json.load(f)
ReturnList(list) == [kind |-> "list", list |-> list]

\* An exception leaves the method
Raise == [kind |-> "raise", list |-> <<>>]

\* A run that has not made its call
IdleProc ==
    [call |-> "none", pc |-> "idle", results |-> <<>>, pos |-> 0, buf |-> <<>>,
     detached |-> FALSE, ret |-> NoReturn]

\* The call of run p has returned
Return(proc, ret) == [proc EXCEPT !.pc = "done", !.ret = ret]

\* The cache file of the one fingerprint all calls are about: absent, or
\* written by an earlier run (writer 0), fresh or expired.  The calls overlap
\* within one second, so the clock stands still.
InitRace ==
    /\ searchers = <<>>
    /\ cache \in {NoFile}
          \cup {[present |-> TRUE, text |-> json_dump(ResultsOf(0, n)), mtime |-> t] :
                   n \in 1..MaxBatch, t \in {StartTime, StartTime - expiry_seconds}}
    /\ clock = StartTime
    /\ last_request_time = [p \in Providers |-> 0]
    /\ last_successful_searchers = <<>>
    /\ last_failed_searchers = <<>>
    /\ gen = GenIdle
    /\ out = <<>>
    /\ mode = "none"
    /\ run = NoRun
    /\ prev = NoPrev
    /\ runs = 0
    /\ op = [name |-> "concurrent", procs |-> [p \in Procs |-> IdleProc],
             first |-> cache]

\* The step of run p changes the file and the run
RaceStep(p, file, proc) ==
    /\ cache' = file
    /\ op' = [op EXCEPT !.procs[p] = proc]
    /\ UNCHANGED <<searchers, clock, last_request_time, last_successful_searchers,
                   last_failed_searchers, gen, out, mode, run, prev, runs>>

\* cache_file.unlink() by run p: the name is gone; a run that has the file
\* open goes on writing to a file that has no name
Unlink(p, proc) ==
    /\ cache' = NoFile
    /\ op' = [op EXCEPT !.procs =
                 [q \in Procs |->
                     IF q = p THEN proc
                     ELSE IF op.procs[q].pc = "set:write"
                     THEN [op.procs[q] EXCEPT !.detached = TRUE]
                     ELSE op.procs[q]]]
    /\ UNCHANGED <<searchers, clock, last_request_time, last_successful_searchers,
                   last_failed_searchers, gen, out, mode, run, prev, runs>>

\* get, in _is_cache_valid: if not cache_path.exists(): return False
GetExists(p) ==
    /\ op.procs[p].pc = "idle"
    /\ RaceStep(p, cache,
                IF cache.present
                THEN [op.procs[p] EXCEPT !.call = "get", !.pc = "get:stat"]
                ELSE Return([op.procs[p] EXCEPT !.call = "get"], ReturnNone))

\* get, in _is_cache_valid: file_age = time.time() - cache_path.stat().st_mtime,
\* outside the try of get: FileNotFoundError leaves get
GetStat(p) ==
    /\ op.procs[p].pc = "get:stat"
    /\ RaceStep(p, cache,
                IF ~cache.present THEN Return(op.procs[p], Raise)
                ELSE IF NotExpired(cache, clock)
                THEN [op.procs[p] EXCEPT !.pc = "get:open"]
                ELSE Return(op.procs[p], ReturnNone))

\* get: with open(cache_path, 'r') as f: return json.load(f), inside
\* try ... except (json.JSONDecodeError, IOError)
GetOpen(p) ==
    /\ op.procs[p].pc = "get:open"
    /\ RaceStep(p, cache,
                IF cache.present /\ json_load(cache.text).ok
                THEN Return(op.procs[p], ReturnList(json_load(cache.text).list))
                ELSE Return(op.procs[p], ReturnNone))

\* set: if not results: return; else open(cache_path, 'w') creates the file
\* or cuts it to length 0
SetOpen(p, n) ==
    /\ op.procs[p].pc = "idle"
    /\ IF n = 0
       THEN RaceStep(p, cache, Return([op.procs[p] EXCEPT !.call = "set"], ReturnNone))
       ELSE RaceStep(p, [present |-> TRUE, text |-> <<>>, mtime |-> clock],
                     [op.procs[p] EXCEPT !.call = "set", !.pc = "set:write",
                                         !.results = ResultsOf(p, n),
                                         !.buf = json_dump(ResultsOf(p, n))])

\* set: the buffer of f is flushed, k tokens of it, when it is full and when f
\* is closed; the file position of f moves on
SetWrite(p, k) ==
    /\ op.procs[p].pc = "set:write"
    /\ k <= Len(op.procs[p].buf)
    /\ \E proc \in {[op.procs[p] EXCEPT
                        !.pos = @ + k,
                        !.buf = SubSeq(@, k + 1, Len(@))]} :
          RaceStep(p,
                   IF op.procs[p].detached THEN cache
                   ELSE [cache EXCEPT !.text = WriteAt(@, op.procs[p].pos,
                                                       SubSeq(op.procs[p].buf, 1, k)),
                                      !.mtime = clock],
                   IF proc.buf = <<>> THEN Return(proc, ReturnNone) ELSE proc)

\* clear: for cache_file in self.cache_dir.glob("*.json")
ClearGlob(p) ==
    /\ op.procs[p].pc = "idle"
    /\ RaceStep(p, cache,
                IF cache.present
                THEN [op.procs[p] EXCEPT !.call = "clear", !.pc = "clear:unlink"]
                ELSE Return([op.procs[p] EXCEPT !.call = "clear"], ReturnNone))

\* clear: cache_file.unlink(); FileNotFoundError is caught by except Exception
ClearUnlink(p) ==
    /\ op.procs[p].pc = "clear:unlink"
    /\ Unlink(p, Return(op.procs[p], ReturnNone))

\* clear_expired: for cache_file in self.cache_dir.glob("*.json")
ExpiredGlob(p) ==
    /\ op.procs[p].pc = "idle"
    /\ RaceStep(p, cache,
                IF cache.present
                THEN [op.procs[p] EXCEPT !.call = "clear_expired", !.pc = "expired:exists"]
                ELSE Return([op.procs[p] EXCEPT !.call = "clear_expired"], ReturnNone))

\* clear_expired, in _is_cache_valid: if not cache_path.exists(): return
\* False, and the file is unlinked
ExpiredExists(p) ==
    /\ op.procs[p].pc = "expired:exists"
    /\ RaceStep(p, cache,
                [op.procs[p] EXCEPT !.pc = IF cache.present THEN "expired:stat"
                                           ELSE "expired:unlink"])

\* clear_expired, in _is_cache_valid: the age of the file; FileNotFoundError
\* is caught by except Exception and ends the method
ExpiredStat(p) ==
    /\ op.procs[p].pc = "expired:stat"
    /\ RaceStep(p, cache,
                IF cache.present
                   /\ ~NotExpired(cache, clock)
                THEN [op.procs[p] EXCEPT !.pc = "expired:unlink"]
                ELSE Return(op.procs[p], ReturnNone))

\* clear_expired: cache_file.unlink()
ExpiredUnlink(p) ==
    /\ op.procs[p].pc = "expired:unlink"
    /\ Unlink(p, Return(op.procs[p], ReturnNone))

NextRace ==
    \/ \E p \in Procs : GetExists(p)
    \/ \E p \in Procs : GetStat(p)
    \/ \E p \in Procs : GetOpen(p)
    \/ \E p \in Procs : \E n \in 0..MaxBatch : SetOpen(p, n)
    \/ \E p \in Procs : \E k \in 1..(MaxBatch + 2) : SetWrite(p, k)
    \/ \E p \in Procs : ClearGlob(p)
    \/ \E p \in Procs : ClearUnlink(p)
    \/ \E p \in Procs : ExpiredGlob(p)
    \/ \E p \in Procs : ExpiredExists(p)
    \/ \E p \in Procs : ExpiredStat(p)
    \/ \E p \in Procs : ExpiredUnlink(p)

SpecRace == InitRace /\ [][NextRace]_vars

----------------------------------------------------------------------------
(* Two streams of one Aggregator that overlap *)

\* first = aggregator.run_all_searches(..., stream=True), some next(first),
\* then second = aggregator.run_all_searches(..., stream=True): a second
\* generator object over the same Aggregator.  gen, run and out now stand for
\* the second stream; the first generator object, what it has searched and
\* what its consumer holds are kept in op.
StartSecondStream(q, scen) ==
    /\ StreamActive
    /\ op = NoOp
    /\ op' = [name |-> "overlap",
              first |-> [g |-> gen, log |-> run.log, processed |-> run.processed,
                         out |-> out]]
    /\ gen' = _process_searchers(q, scen)
    /\ out' = <<>>
    /\ run' = [NoRun EXCEPT !.q = q]
    /\ prev' = PrevOf
    /\ runs' = runs + 1
    /\ UNCHANGED <<searchers, cache, clock, last_request_time,
                   last_successful_searchers, last_failed_searchers, mode>>

\* next(first) after the second stream was created: the body of the first
\* generator goes on with its own locals and with the attributes of the
\* Aggregator as they are now
PullFirst ==
    /\ op.name = "overlap"
    /\ op.first.g.status \in {"created", "suspended"}
    /\ \E m \in {Resume(searchers, [Machine(op.first.log, op.first.processed)
                                      EXCEPT !.g = op.first.g])} :
        /\ m.clock <= MaxTime
        /\ Install(m)
        /\ op' = [op EXCEPT !.first =
                     [g |-> m.g, log |-> m.log, processed |-> m.processed,
                      out |-> IF m.g.status = "done" THEN op.first.out
                              ELSE Append(op.first.out, m.yielded)]]
    /\ UNCHANGED <<searchers, gen, out, mode, run, prev, runs>>

NextOverlap ==
    \/ \E q \in Queries : \E scen \in Scenarios(searchers, SmallResponses) :
          runs = 0 /\ StartStream(q, scen)
    \/ \E q \in Queries : \E scen \in Scenarios(searchers, SmallResponses) :
          StartSecondStream(q, scen)
    \/ Pull
    \/ PullFirst

SpecOverlap == Init /\ [][NextOverlap]_vars

----------------------------------------------------------------------------
(* Definitions the claims are stated with *)

\* The run has attempted every searcher: the list was returned, or the stream
\* is exhausted
RunComplete == mode = "list" \/ (mode = "stream" /\ gen.status = "done")

RECURSIVE ConcatBatches(_, _)
\* The lists the searchers that did not raise handed over, one after the
\* other in the order of the attempts, from attempt i on
ConcatBatches(log, i) ==
    IF i > Len(log) THEN <<>>
    ELSE (IF log[i].raised THEN <<>> ELSE log[i].results) \o ConcatBatches(log, i + 1)

\* The names of the attempts that raised (flag TRUE) or did not (flag FALSE)
NamesWhere(log, flag) ==
    LET Test(a) == a.raised = flag
        sel == SelectSeq(log, Test)
    IN  [i \in 1..Len(sel) |-> sel[i].name]

\* The record has a real DOI
HasDoi(r) == LET d == Strip(Lower(r.DOI)) IN d # <<>> /\ d # Str_na

\* DedupKey: the DOI if there is a real one, else the title
RefKey(r) == IF HasDoi(r) THEN <<"doi", Strip(Lower(r.DOI))>>
             ELSE <<"title", Strip(Lower(r.Title))>>

RECURSIVE KeepFirst(_, _)
\* The records of seq, from position k on, that are the first with their key
KeepFirst(seq, k) ==
    IF k > Len(seq) THEN <<>>
    ELSE (IF \E j \in 1..(k - 1) : RefKey(seq[j]) = RefKey(seq[k]) THEN <<>> ELSE <<seq[k]>>)
            \o KeepFirst(seq, k + 1)

\* The position of the first record of seq with the key
FirstWith(seq, key) ==
    CHOOSE k \in DOMAIN seq :
        RefKey(seq[k]) = key /\ \A j \in 1..(k - 1) : RefKey(seq[j]) # key

RECURSIVE IsSubsequence(_, _)
IsSubsequence(a, b) ==
    IF a = <<>> THEN TRUE
    ELSE IF b = <<>> THEN FALSE
    ELSE IF Head(a) = Head(b) THEN IsSubsequence(Tail(a), Tail(b))
    ELSE IsSubsequence(a, Tail(b))

Count(seq, x) == Cardinality({i \in DOMAIN seq : seq[i] = x})

\* The cache held a fresh file for the attempt's fingerprint when it looked
FreshBefore(a) ==
    a.entry_before.present /\ a.time_before - a.entry_before.mtime < expiry_seconds

----------------------------------------------------------------------------
(* C1: when some searchers raise, the run still attempts every searcher, in
   order, returns exactly the de-duplicated records of the searchers that did
   not raise, and the summary lists those as successful and the raising ones as
   failed. *)
PartialFailureContainment ==
    RunComplete =>
        /\ Len(run.log) = Len(searchers)
        /\ \A i \in DOMAIN run.log : run.log[i].name = searchers[i]
        /\ out = KeepFirst(ConcatBatches(run.log, 1), 1)
        /\ get_last_run_summary.successful = NamesWhere(run.log, FALSE)
        /\ get_last_run_summary.failed = NamesWhere(run.log, TRUE)

\* [A, B(raises), C]: records of A and of C are in the output
PartialFailureWitness ==
    /\ RunComplete
    /\ Len(run.log) = 3
    /\ run.log[2].raised /\ ~run.log[1].raised /\ ~run.log[3].raised
    /\ \E i, j \in DOMAIN out : out[i].Source = searchers[1] /\ out[j].Source = searchers[3]
    /\ get_last_run_summary.failed = <<searchers[2]>>

(* C2: a searcher whose provider call ended in an error (request error or
   malformed response) is in the failed list and not in the successful list
   after the run. *)
FetchErrorReportedFailed ==
    RunComplete =>
        \A i \in DOMAIN run.log :
            run.log[i].kind \in {"request_error", "parse_error"} =>
                /\ run.log[i].name \in Range(get_last_run_summary.failed)
                /\ run.log[i].name \notin Range(get_last_run_summary.successful)

(* C3: first writer wins: no two output records share a DedupKey, every key
   that was produced has its record in the output, and that record is the
   first with the key in processing order. *)
FirstWriterWins ==
    RunComplete =>
        LET all == ConcatBatches(run.log, 1) IN
        /\ \A i, j \in DOMAIN out : i # j => RefKey(out[i]) # RefKey(out[j])
        /\ \A k \in DOMAIN all :
              \E i \in DOMAIN out : /\ RefKey(out[i]) = RefKey(all[k])
                                    /\ out[i] = all[FirstWith(all, RefKey(all[k]))]
        /\ \A i \in DOMAIN out : \E k \in DOMAIN all : RefKey(all[k]) = RefKey(out[i])

\* Two searchers produced the same DOI, written differently; the earlier one's
\* record is in the output
FirstWriterWitness ==
    /\ RunComplete
    /\ Len(run.log) = 2
    /\ LET all == ConcatBatches(run.log, 1) IN
        \E j, k \in DOMAIN all :
            /\ j < k /\ all[j].Source # all[k].Source
            /\ HasDoi(all[j]) /\ RefKey(all[j]) = RefKey(all[k]) /\ all[j].DOI # all[k].DOI
            /\ \E i \in DOMAIN out : out[i] = all[j]
    /\ Len(out) >= 2

(* C4: the DOI set and the title set do not influence each other: a record is
   dropped exactly when an earlier record of the same kind (both with a DOI
   and the same DOI, or both without and the same title) was processed. *)
DedupIsolation ==
    LET P == run.processed
        Same(x, y) == \/ HasDoi(x) /\ HasDoi(y) /\ Strip(Lower(x.DOI)) = Strip(Lower(y.DOI))
                      \/ ~HasDoi(x) /\ ~HasDoi(y) /\ Strip(Lower(x.Title)) = Strip(Lower(y.Title))
    IN  \A k \in DOMAIN P :
            P[k].dropped <=> \E j \in 1..(k - 1) : Same(P[j].result, P[k].result)

\* A record without DOI was kept although an earlier record with a DOI had its
\* title for a DOI, and a record with a DOI was kept although an earlier record
\* without DOI had its title
DedupIsolationWitness ==
    LET P == run.processed IN
    /\ \E j, k \in DOMAIN P :
          /\ j < k /\ HasDoi(P[j].result) /\ ~HasDoi(P[k].result) /\ ~P[k].dropped
          /\ Strip(Lower(P[k].result.Title)) = Strip(Lower(P[j].result.DOI))
    /\ \E j, k \in DOMAIN P :
          /\ j < k /\ ~HasDoi(P[j].result) /\ HasDoi(P[k].result) /\ ~P[k].dropped
          /\ Strip(Lower(P[k].result.Title)) = Strip(Lower(P[j].result.Title))

(* C5: a fully drained stream gave the consumer the list that the list mode
   returns from the same state with the same provider answers, and leaves the
   same summary. *)
StreamEqualsList ==
    (mode = "stream" /\ gen.status = "done") =>
        /\ out = run.expected.all_results
        /\ get_last_run_summary.successful = run.expected.successful
        /\ get_last_run_summary.failed = run.expected.failed

\* A drained stream of a second run with a cache hit, a failure and two records
StreamEqualsListWitness ==
    /\ mode = "stream" /\ gen.status = "done"
    /\ runs = 2
    /\ Len(out) >= 2
    /\ \E i \in DOMAIN run.log : run.log[i].hit
    /\ get_last_run_summary.failed # <<>>

(* C6: the output is a subsequence of the batches concatenated in searcher
   order: each output record is the record at some position of some batch, and
   these (searcher, position) pairs strictly increase along the output. *)
OrderingInvariant ==
    LET Kept(x) == ~x.dropped
        kept == SelectSeq(run.processed, Kept)
    IN  /\ Len(kept) = Len(out)
        /\ \A i \in DOMAIN kept :
              /\ kept[i].result = out[i]
              /\ kept[i].idx \in DOMAIN run.log
              /\ kept[i].pos \in DOMAIN run.log[kept[i].idx].results
              /\ run.log[kept[i].idx].results[kept[i].pos] = out[i]
              /\ run.log[kept[i].idx].name = searchers[kept[i].idx]
        /\ \A i, j \in DOMAIN kept :
              i < j => \/ kept[i].idx < kept[j].idx
                       \/ kept[i].idx = kept[j].idx /\ kept[i].pos < kept[j].pos
        /\ IsSubsequence(out, ConcatBatches(run.log, 1))

\* Two records of the first searcher, in its order, then one of the second
OrderingWitness ==
    /\ RunComplete
    /\ Len(out) = 3
    /\ out[1].Source = searchers[1] /\ out[2].Source = searchers[1]
    /\ Len(searchers) = 2 /\ out[3].Source = searchers[2]
    /\ out[1] # out[2]

(* C7: after a complete run every searcher of the run is exactly once in
   successful and failed taken together, and nothing else is in them. *)
SummaryPartition ==
    RunComplete =>
        /\ \A i \in DOMAIN searchers :
              Count(last_successful_searchers, searchers[i])
                + Count(last_failed_searchers, searchers[i]) = 1
        /\ Range(last_successful_searchers) \cup Range(last_failed_searchers)
              \subseteq Range(searchers)

\* A second complete run with a successful and a failed searcher
SummaryPartitionWitness ==
    /\ RunComplete
    /\ runs = 2
    /\ last_successful_searchers # <<>>
    /\ last_failed_searchers # <<>>

(* C8: once run_all_searches has been called, in either mode, the summary
   lists only searchers attempted in this run. *)
SummaryResetAtInvocation ==
    mode # "none" =>
        \A n \in Range(last_successful_searchers) \cup Range(last_failed_searchers) :
            \E i \in DOMAIN run.log : run.log[i].name = n

(* C9: a searcher that finds a fresh cache file for its fingerprint hands over
   exactly the cached list, does not call its rate limiter (its last request
   time is unchanged), does not request the provider and is successful. *)
CacheHitPath ==
    \A i \in DOMAIN run.log :
        FreshBefore(run.log[i]) =>
            /\ run.log[i].results = run.log[i].entry_before.results
            /\ ~run.log[i].requested
            /\ ~run.log[i].acquired
            /\ run.log[i].last_after = run.log[i].last_before
            /\ ~run.log[i].raised
            /\ RunComplete => run.log[i].name \in Range(get_last_run_summary.successful)

\* A complete run in which a searcher found a fresh file shortly after its
\* last request
CacheHitWitness ==
    /\ RunComplete
    /\ \E i \in DOMAIN run.log :
          /\ FreshBefore(run.log[i])
          /\ run.log[i].time_before - run.log[i].last_before < rate_limit(run.log[i].name)
          /\ run.log[i].results # <<>>

\* The cache files the run before left are still there, unchanged and fresh
PrevCacheFresh ==
    \A e \in prev.stored :
        LET en == EntryOf(e.name, cache, run.q) IN
        en.present /\ en.mtime = e.mtime /\ clock - en.mtime < expiry_seconds

NoProviderRequests == \A i \in DOMAIN run.log : ~run.log[i].requested

(* C10 as stated: a second run with the same query, limit, search type, filters
   and searchers, while the cache the first run wrote is unexpired, yields the
   same records and no provider request. *)
IdempotenceAsStated ==
    (RunComplete /\ prev.valid /\ run.q = prev.q /\ PrevCacheFresh) =>
        /\ out = prev.out
        /\ NoProviderRequests

(* C10 as amended: the same, when in the first run every searcher's list was
   non-empty and ended up in the cache (read from it, or fetched and saved). *)
IdempotenceWhenAllCached ==
    (RunComplete /\ prev.valid /\ run.q = prev.q /\ PrevCacheFresh /\ prev.allcached) =>
        /\ out = prev.out
        /\ NoProviderRequests

\* A second run after a first one whose two searchers both left their lists in
\* the cache
IdempotenceWitness ==
    /\ RunComplete /\ prev.valid /\ run.q = prev.q /\ PrevCacheFresh /\ prev.allcached
    /\ Cardinality(prev.stored) = 2
    /\ out # <<>>
    /\ \A i \in DOMAIN run.log : run.log[i].hit

----------------------------------------------------------------------------
(* Claims about the CacheManager *)

(* C11: set with an empty record list changes nothing: no file is created for
   the fingerprint, a file that is there keeps its records and write time, and
   every other file is unchanged. *)
SetEmptyIsNoOp ==
    (op.name = "set" /\ op.results = <<>>) => op.after = op.before /\ cache = op.before

\* set with an empty list on a fingerprint whose file was written earlier
SetEmptyWitness ==
    /\ op.name = "set" /\ op.results = <<>>
    /\ KeyOfArgs(op.args) \in DOMAIN op.before
    /\ op.before[KeyOfArgs(op.args)].mtime < op.time
    /\ Cardinality(DOMAIN op.before) = 2

(* C12: get returns the stored records if and only if a file exists and
   now - mtime < expiry_seconds; a file written at time T is a hit at every
   time before T + expiry_seconds and a miss from T + expiry_seconds on. *)
TtlFreshness ==
    op.name = "get" =>
        LET k == KeyOfArgs(op.args) IN
        /\ op.got.hit <=> (k \in DOMAIN op.before
                             /\ op.time - op.before[k].mtime < expiry_seconds)
        /\ op.got.hit => op.got.results = op.before[k].results
        /\ k \in DOMAIN op.latest =>
              (op.got.hit <=> op.time < op.latest[k].time + expiry_seconds)

\* A get exactly expiry_seconds after the write: a miss, the file is there
TtlBoundaryWitness ==
    /\ op.name = "get"
    /\ KeyOfArgs(op.args) \in DOMAIN op.latest
    /\ op.time = op.latest[KeyOfArgs(op.args)].time + expiry_seconds
    /\ ~op.got.hit
    /\ KeyOfArgs(op.args) \in DOMAIN cache

(* C13: a get on a stale file returns None and deletes nothing; clear_expired
   removes exactly the files that are stale when it runs and leaves every
   valid file with its records and write time. *)
StaleLifecycle ==
    /\ op.name = "get" => op.after = op.before /\ cache = op.before
    /\ (op.name = "get" /\ KeyOfArgs(op.args) \in DOMAIN op.before
          /\ op.time - op.before[KeyOfArgs(op.args)].mtime >= expiry_seconds)
            => ~op.got.hit /\ KeyOfArgs(op.args) \in DOMAIN cache
    /\ op.name = "clear_expired" =>
          /\ DOMAIN op.after =
                {k \in DOMAIN op.before : op.time - op.before[k].mtime < expiry_seconds}
          /\ \A k \in DOMAIN op.after : op.after[k] = op.before[k]
          /\ cache = op.after

\* clear_expired with one stale file, removed, and one valid file, kept
ClearExpiredWitness ==
    /\ op.name = "clear_expired"
    /\ Cardinality(DOMAIN op.before) = 2
    /\ Cardinality(DOMAIN op.after) = 1
    /\ \E k \in DOMAIN op.after : op.after[k].mtime < op.time

(* C16: a set with a non-empty list leaves the file with exactly that list and
   the time of the call as its write time; a get within expiry_seconds of the
   latest set on its fingerprint returns the list of that set. *)
LastWriteWins ==
    /\ (op.name = "set" /\ op.results # <<>>) =>
          LET k == KeyOfArgs(op.args) IN
          /\ k \in DOMAIN op.after
          /\ op.after[k].results = op.results /\ op.after[k].mtime = op.time
          /\ \A j \in DOMAIN op.before \ {k} : j \in DOMAIN op.after /\ op.after[j] = op.before[j]
          /\ DOMAIN op.after = DOMAIN op.before \cup {k}
    /\ (op.name = "get" /\ KeyOfArgs(op.args) \in DOMAIN op.latest
          /\ op.time - op.latest[KeyOfArgs(op.args)].time < expiry_seconds) =>
          /\ op.got.hit
          /\ op.got.results = op.latest[KeyOfArgs(op.args)].results

\* A get that returns the list of a set that replaced a different list, written
\* under the query in the other case
LastWriteWinsWitness ==
    /\ op.name = "get" /\ op.got.hit
    /\ KeyOfArgs(op.args) \in DOMAIN op.latest
    /\ op.latest[KeyOfArgs(op.args)].over
    /\ op.latest[KeyOfArgs(op.args)].query # op.args.query
    /\ op.got.results = op.latest[KeyOfArgs(op.args)].results
    /\ op.time > op.latest[KeyOfArgs(op.args)].time

----------------------------------------------------------------------------
(* Claims about the fingerprint *)

\* The items of a filters dict, whatever their order
ItemsOf(filters) == {filters[i] : i \in DOMAIN filters}

SameButFilters(a, b) ==
    /\ a.query = b.query
    /\ a.source = b.source
    /\ a.limit = b.limit
    /\ a.search_type = b.search_type

(* C14: for the same query, source, limit and search type, two filters dicts   *)
(* with the same key/value pairs give the same fingerprint, in whatever order  *)
(* the keys were put in.                                                       *)
FingerprintStability ==
    (/\ op.name = "keys"
     /\ SameButFilters(op.a, op.b)
     /\ ItemsOf(op.a.filters) = ItemsOf(op.b.filters))
    => op.key_a = op.key_b

\* Two dicts with the same two items, both with a value, in opposite orders
FingerprintStabilityWitness ==
    /\ op.name = "keys"
    /\ SameButFilters(op.a, op.b)
    /\ Len(op.a.filters) = 2
    /\ op.b.filters = <<op.a.filters[2], op.a.filters[1]>>
    /\ \A i \in 1..2 : op.a.filters[i][2] # NoneValue
    /\ op.key_a = op.key_b

\* The filters that constrain the search: the items with a value
ActiveFilters(filters) == {item \in ItemsOf(filters) : item[2] # NoneValue}

\* The two runs ask for the same combination of query text, limit, search type
\* and filter set (the provider is the searcher's)
SameCombination(q1, q2) ==
    /\ Lower(q1.query) = Lower(q2.query)
    /\ q1.limit = q2.limit
    /\ q1.search_type = q2.search_type
    /\ ActiveFilters(q1.filters) = ActiveFilters(q2.filters)

(* C15 as stated: a cache entry written for one combination of query text,     *)
(* provider, limit, search type and filter set is never returned for another:  *)
(* a searcher of the second run on a cache that was empty before the first     *)
(* run reads an entry only if the first run asked for the same combination.    *)
FingerprintUniqueness ==
    (runs = 2 /\ mode = "list")
    => \A i \in DOMAIN run.log :
          run.log[i].hit => prev.valid /\ SameCombination(prev.q, run.q)

(* The fingerprints of _generate_cache_key themselves: argument tuples that    *)
(* differ in the lower-cased text, the source, the limit, the search type or   *)
(* the filter set have different fingerprints.                                 *)
KeysDistinguishArguments ==
    (/\ op.name = "keys"
     /\ \/ Lower(op.a.query) # Lower(op.b.query)
        \/ op.a.source # op.b.source
        \/ op.a.limit # op.b.limit
        \/ op.a.search_type # op.b.search_type
        \/ ActiveFilters(op.a.filters) # ActiveFilters(op.b.filters))
    => op.key_a # op.key_b

(* C20 as stated: run_all_searches called with an empty text or with a limit   *)
(* that is not positive attempts no searcher: no cache lookup, no rate-limiter *)
(* call, no request, and both lists of the summary stay empty.                 *)
ConfigurationErrorsRejected ==
    (mode = "list" /\ (run.q.query = <<>> \/ run.q.limit <= 0))
    => /\ run.log = <<>>
       /\ get_last_run_summary = [successful |-> <<>>, failed |-> <<>>]

----------------------------------------------------------------------------
(* Claims about cache files that cannot be read or written *)

\* The attempt found a fresh file that cannot be read or decoded
DamagedBefore(a) == FreshBefore(a) /\ a.entry_before.damage # "none"

(* C17 as stated: a cache file that cannot be read or is corrupt is a miss:    *)
(* the lookup does not raise, the searcher requests its provider and is not    *)
(* listed as failed; and a cache write that fails leaves the searcher          *)
(* successful with the records it fetched.                                     *)
CacheErrorsAreMisses ==
    mode = "list"
    => \A i \in DOMAIN run.log :
          /\ DamagedBefore(run.log[i])
                => /\ ~run.log[i].raised
                   /\ ~run.log[i].hit
                   /\ run.log[i].requested
                   /\ Count(last_failed_searchers, run.log[i].name) = 0
          /\ (run.log[i].requested /\ run.log[i].fault # "none")
                => /\ ~run.log[i].raised
                   /\ run.log[i].results # <<>>
                   /\ Count(last_successful_searchers, run.log[i].name) = 1

\* The part of C17 that the code keeps: the damaged files whose error get
\* catches, and the writes that fail
CaughtCacheErrorsAreMisses ==
    mode = "list"
    => \A i \in DOMAIN run.log :
          /\ (DamagedBefore(run.log[i]) /\ CaughtOnRead(run.log[i].entry_before.damage))
                => /\ ~run.log[i].raised
                   /\ ~run.log[i].hit
                   /\ run.log[i].requested
                   /\ Count(last_failed_searchers, run.log[i].name) = 0
          /\ (run.log[i].requested /\ run.log[i].fault # "none")
                => /\ ~run.log[i].raised
                   /\ run.log[i].results # <<>>
                   /\ Count(last_successful_searchers, run.log[i].name) = 1

----------------------------------------------------------------------------
(* Claims about the rate limiter *)

\* The wait the instance's own state asks for when the call starts
WaitOf(last, limit, now) == IF now - last < limit THEN limit - (now - last) ELSE 0

(* C18: for one searcher instance two consecutive returns of                  *)
(* _enforce_rate_limit are at least rate_limit apart, the call waits no longer *)
(* than that needs, and the first call on a new instance returns at once.     *)
RateLimiterSpacing ==
    op.name = "acquire"
    => /\ op.calls[op.inst] > 1
            => op.completed - op.before[op.inst] >= rate_limit(op.inst[1])
       /\ op.calls[op.inst] = 1 => op.completed = op.started
       /\ op.completed >= op.started
       /\ op.completed > op.started
            => op.completed - op.before[op.inst] = rate_limit(op.inst[1])
       /\ op.after[op.inst] = op.completed

\* A second call on an instance, started before its interval is over: it waits
RateLimiterSpacingWitness ==
    /\ op.name = "acquire"
    /\ op.calls[op.inst] = 2
    /\ op.started - op.before[op.inst] < rate_limit(op.inst[1])
    /\ op.completed > op.started

(* C19: _enforce_rate_limit on one instance writes only that instance's       *)
(* _last_request_time and waits as that instance's own last time asks: the     *)
(* last time of every other instance, also of the same class, is unchanged.   *)
RateLimiterPerInstance ==
    op.name = "acquire"
    => /\ \A other \in Instances \ {op.inst} : op.after[other] = op.before[other]
       /\ op.completed - op.started
            = WaitOf(op.before[op.inst], rate_limit(op.inst[1]), op.started)

\* A call on one SemanticScholarSearcher object right after a call on the
\* other one: it does not wait, and the other keeps its time
RateLimiterPerInstanceWitness ==
    /\ op.name = "acquire"
    /\ op.inst = <<S2, 2>>
    /\ op.calls[op.inst] = 1
    /\ op.before[<<S2, 1>>] = op.started
    /\ op.completed = op.started
    /\ op.after[<<S2, 1>>] = op.before[<<S2, 1>>]

----------------------------------------------------------------------------
(* Claims about the searcher classes *)

(* C27 as stated: every searcher class accepts the call of the Aggregator:    *)
(* unless its provider answers with an error, the searcher does not raise and *)
(* is listed as successful.                                                    *)
EverySearcherAcceptsTheCall ==
    RunComplete
    => \A i \in DOMAIN run.log :
          run.log[i].kind \notin {"request_error", "parse_error"}
          => /\ ~run.log[i].raised
             /\ Count(last_successful_searchers, run.log[i].name) = 1
             /\ Count(last_failed_searchers, run.log[i].name) = 0

----------------------------------------------------------------------------
(* Claims about the course of a run *)

\* The searchers attempted so far are the first ones of the list, in its order
AttemptedInOrder ==
    /\ Len(run.log) <= Len(searchers)
    /\ \A i \in DOMAIN run.log : run.log[i].name = searchers[i] /\ run.log[i].idx = i

(* C26: a run that is collected into a list ends; while it runs, search has   *)
(* been called once on each of the first searchers of the list, in the order  *)
(* of the list, and the run is over only when search has been called on every *)
(* searcher of the list.                                                      *)
Completion ==
    /\ [](AttemptedInOrder /\ (gen.status = "done" => Len(run.log) = Len(searchers)))
    /\ (gen.status = "created") ~> (gen.status = "done")

\* A run over three searchers is over; the second raised
CompletionWitness ==
    /\ gen.status = "done"
    /\ Len(searchers) = 3
    /\ Len(run.log) = 3
    /\ run.log[2].raised

RECURSIVE KeptOf(_, _)
\* The records of the processed ones that were not dropped, from position i
KeptOf(processed, i) ==
    IF i > Len(processed) THEN <<>>
    ELSE IF processed[i].dropped THEN KeptOf(processed, i + 1)
    ELSE <<processed[i].result>> \o KeptOf(processed, i + 1)

\* The records of searcher number idx that the loop has gone through
ProcessedOf(idx) == {k \in DOMAIN run.processed : run.processed[k].idx = idx}

(* C24: in stream mode nothing is searched before the consumer asks for the   *)
(* first record; the consumer holds every unique record the loop has come to; *)
(* a searcher is searched only when the whole batch of the searcher before    *)
(* it has been gone through; and the only batch held is that of the searcher  *)
(* the generator is suspended in.                                             *)
PullBased ==
    mode = "stream"
    => /\ gen.status = "created" => run.log = <<>> /\ out = <<>>
       /\ out = KeptOf(run.processed, 1)
       /\ \A j \in DOMAIN run.log :
             (j < Len(run.log) /\ ~run.log[j].raised)
             => Cardinality(ProcessedOf(j)) = Len(run.log[j].results)
       /\ gen.status = "suspended"
             => /\ gen.idx = Len(run.log)
                /\ run.processed[Len(run.processed)].idx = Len(run.log)
                /\ out[Len(out)] = run.processed[Len(run.processed)].result
                /\ gen.raw_results = run.log[Len(run.log)].results

\* The consumer holds the first of two unique records of the first searcher;
\* the second searcher has not been searched
PullBasedWitness ==
    /\ mode = "stream"
    /\ gen.status = "suspended"
    /\ Len(searchers) = 2
    /\ Len(run.log) = 1
    /\ Len(out) = 1
    /\ Len(gen.raw_results) = 2
    /\ gen.pos = 1
    /\ gen.scen[searchers[2]].kind = "ok"

(* C21 as stated: when the consumer of a stream stops, the searchers not yet  *)
(* reached have not been searched, the cache holds complete files only, and   *)
(* every searcher that was searched, the one the stream stopped in included,  *)
(* is exactly once in the two lists of the summary.                           *)
CancellationConsistency ==
    gen.status = "closed"
    => /\ AttemptedInOrder
       /\ \A k \in DOMAIN cache : cache[k].damage = "none"
       /\ \A i \in DOMAIN run.log :
             Count(last_successful_searchers, run.log[i].name)
                + Count(last_failed_searchers, run.log[i].name) = 1

\* The part of C21 that the code keeps: the searchers after the one the stream
\* stopped in have not been searched, and the cache files are complete
CancellationLeavesTheRest ==
    gen.status = "closed"
    => /\ AttemptedInOrder
       /\ \A k \in DOMAIN cache : cache[k].damage = "none"
       /\ \A i \in DOMAIN run.log :
             i < Len(run.log)
             => Count(last_successful_searchers, run.log[i].name)
                   + Count(last_failed_searchers, run.log[i].name) = 1

----------------------------------------------------------------------------
(* Claims about records without DOI and title *)

\* The record has a title that is neither empty nor the 'N/A' sentinel
HasTitle(r) == LET t == Strip(Lower(r.Title)) IN t # <<>> /\ t # Str_na

(* C29 as stated: a record is dropped only if an earlier output record of the  *)
(* run has the same real DOI or, both lacking a DOI, the same real title; two  *)
(* distinct records without DOI and without title are both kept.               *)
NoFalseDuplicates ==
    \A k \in DOMAIN run.processed :
        run.processed[k].dropped
        => \E j \in 1..(k - 1) :
              LET x == run.processed[j].result
                  y == run.processed[k].result
              IN  /\ ~run.processed[j].dropped
                  /\ \/ HasDoi(x) /\ HasDoi(y)
                           /\ Strip(Lower(x.DOI)) = Strip(Lower(y.DOI))
                     \/ ~HasDoi(x) /\ ~HasDoi(y) /\ HasTitle(x) /\ HasTitle(y)
                           /\ Strip(Lower(x.Title)) = Strip(Lower(y.Title))

\* The part of C29 that the code keeps: a dropped record has the DOI of an
\* earlier output record or, both lacking a DOI, its title as it is written,
\* the sentinel included
DuplicatesHaveAnOriginal ==
    \A k \in DOMAIN run.processed :
        run.processed[k].dropped
        => \E j \in 1..(k - 1) :
              /\ ~run.processed[j].dropped
              /\ RefKey(run.processed[j].result) = RefKey(run.processed[k].result)

----------------------------------------------------------------------------
(* Claims about a failure inside a batch *)

(* C28 as stated: a searcher in the failed list of the summary contributed no  *)
(* record to the output of the run and no key to the seen sets, also when the  *)
(* exception was raised while its batch was being processed.                   *)
FailureIsAllOrNothing ==
    RunComplete
    => \A k \in DOMAIN run.processed :
          Count(last_failed_searchers, searchers[run.processed[k].idx]) = 0

\* The part of C28 that the code keeps: a searcher whose search() raised
\* contributed nothing, and a searcher whose batch raised is in the failed
\* list once and contributed the records before the one that raised
FailureInSearchIsAllOrNothing ==
    RunComplete
    => \A i \in DOMAIN run.log :
          /\ run.log[i].raised => ProcessedOf(i) = {}
          /\ (~run.log[i].raised
                /\ \E j \in DOMAIN run.log[i].results :
                      ~IsString(run.log[i].results[j].DOI)
                         \/ ~IsString(run.log[i].results[j].Title))
             => /\ Count(last_failed_searchers, run.log[i].name) = 1
                /\ Count(last_successful_searchers, run.log[i].name) = 0
                /\ \A j \in DOMAIN run.log[i].results :
                      (\A h \in 1..j : IsString(run.log[i].results[h].DOI)
                                          /\ IsString(run.log[i].results[h].Title))
                      <=> \E k \in ProcessedOf(i) : run.processed[k].pos = j

----------------------------------------------------------------------------
(* Claims about the search methods *)

\* Every request of the search has a call of the rate limiter before it
AcquiredBeforeEveryRequest(events) ==
    \A i \in DOMAIN events :
        events[i].kind = "request"
        => \E j \in 1..(i - 1) : events[j].kind = "acquire"

(* C22 as stated: on a cache miss every searcher class calls its rate limiter   *)
(* before it sends its request to the provider, so that no request of a search  *)
(* is sent without a call of the rate limiter before it in the same search.     *)
ThrottleBeforeFetch ==
    op.name = "search" => AcquiredBeforeEveryRequest(op.events)

\* The part of C22 that the code keeps: the searchers of Semantic Scholar,
\* arXiv, CrossRef and PubMed call the rate limiter before their first request
ThrottleBeforeFetchWhereCalled ==
    (op.name = "search" /\ op.source \notin {GOOGLE, OPENALEX})
    => AcquiredBeforeEveryRequest(op.events)

----------------------------------------------------------------------------
(* Claims about concurrent calls on one cache file *)

\* The runs that have called set with a list that is not empty
Writers == {p \in Procs : op.procs[p].call = "set" /\ op.procs[p].results # <<>>}

\* The runs that have called clear or clear_expired
Clearers == {p \in Procs : op.procs[p].call \in {"clear", "clear_expired"}}

\* The lists of the writers, and the list the file held at the start
CompleteLists ==
    {op.procs[p].results : p \in Writers}
        \cup (IF op.first.present THEN {json_load(op.first.text).list} ELSE {})

\* What C23 says of the gets and of the file the writers leave
SafeAccess ==
    /\ \A p \in Procs :
          (op.procs[p].call = "get" /\ op.procs[p].pc = "done")
          => \/ op.procs[p].ret.kind = "none"
             \/ op.procs[p].ret.kind = "list" /\ op.procs[p].ret.list \in CompleteLists
    /\ (Writers # {} /\ \A p \in Writers : op.procs[p].pc = "done")
          => /\ cache.present
             /\ json_load(cache.text).ok
             /\ \E p \in Writers : json_load(cache.text).list = op.procs[p].results

(* C23 as stated: when a get and a set, or two sets, of separate runs on the   *)
(* same cache file interleave, every get returns None, the complete list       *)
(* stored before or the complete list newly written, never a partial or mixed  *)
(* list, and when all writers have finished the file holds the complete list   *)
(* of exactly one of them.                                                     *)
CacheSafeUnderConcurrentAccess ==
    (op.name = "concurrent" /\ Clearers = {}) => SafeAccess

\* The part of C23 that the code keeps: with one writer the gets return None
\* or a complete list, and the file holds the writer's list when it is done
CacheSafeWithOneWriter ==
    (op.name = "concurrent" /\ Clearers = {} /\ Cardinality(Writers) <= 1) => SafeAccess

(* C30 as stated: a get that runs while clear or clear_expired deletes the     *)
(* file (the file goes away between the existence check and the age check or   *)
(* the read) returns the stored records or None and never raises.              *)
GetSurvivesDeletion ==
    op.name = "concurrent"
    => \A p \in Procs :
          (op.procs[p].call = "get" /\ op.procs[p].pc = "done" /\ Clearers # {}
             /\ Writers = {})
          => \/ op.procs[p].ret.kind = "none"
             \/ op.procs[p].ret.kind = "list" /\ op.procs[p].ret.list \in CompleteLists

\* The part of C30 that the code keeps: a file that goes away between the age
\* check and the read gives None, and a get raises only when the file went
\* away after the existence check
GetRaisesOnlyOnDeletion ==
    op.name = "concurrent"
    => \A p \in Procs :
          op.procs[p].ret.kind = "raise"
          => /\ op.procs[p].call = "get"
             /\ \E q \in Clearers : q # p /\ op.procs[q].pc = "done"

----------------------------------------------------------------------------
(* Claims about streams that overlap *)

\* Both streams have been drained
BothDrained == op.name = "overlap" /\ op.first.g.status = "done" /\ gen.status = "done"

(* C25 as stated: when a second stream of the same Aggregator is started and   *)
(* pulled before the first is drained, the remaining steps of the first do not *)
(* write into the summary of the second; after both are drained the summary    *)
(* lists each searcher the second stream searched exactly once.                *)
SummaryOwnedByOneRun ==
    BothDrained
    => \A i \in DOMAIN run.log :
          Count(last_successful_searchers, run.log[i].name)
             + Count(last_failed_searchers, run.log[i].name) = 1

\* The part of C25 that the code keeps: the second stream searches every
\* searcher once and in order, and hands its consumer what its own batches
\* give, whatever the first stream does in between
SecondStreamKeepsItsRecords ==
    (op.name = "overlap" /\ gen.status = "done")
    => /\ AttemptedInOrder
       /\ Len(run.log) = Len(searchers)
       /\ out = KeptOf(run.processed, 1)

====
